---- MODULE Spec2Model ----
(***************************************************************************)
(* Keyframe retrieval engine: MyFaiss (utils/faiss_processing_beit3.py),   *)
(* SearchService (services/search_service.py) and TemporalService          *)
(* (services/temporal_service.py).                                         *)
(*                                                                         *)
(* Embeddings are unit vectors of the plane at multiples of 60 degrees,    *)
(* named by their angle index 0..5.  Index scores (inner products) are in  *)
(* units of 1/10, temporal similarities in units of 1/60 and temporal      *)
(* result scores in units of 1/360, so that every quotient the code takes  *)
(* is exact.  A query is the translated text, given as the sequence of its *)
(* "."-separated segments; segment 0 is a blank one.                       *)
(***************************************************************************)
EXTENDS Integers, Sequences, FiniteSets, TLC

VARIABLES
    id2img,           \* MyFaiss.id2img: id -> asset path
    feats,            \* per-video feature files: video -> rows, or LoadFails
    beit3_model,      \* MyFaiss.beit3_model is not None
    faiss_engine,     \* SearchService._faiss_engine is not None
    models_loaded,    \* SearchService._models_loaded
    temporal_engine,  \* TemporalService._faiss_engine is not None
    req,              \* the request being answered
    resp,             \* what the caller gets back
    indexes,          \* the FAISSIndex objects: name -> fields
    disk,             \* the files save_index writes and load_index reads
    hdf5,             \* an HDF5Storage object and the file behind it
    loading           \* the coroutines inside _ensure_models_loaded

vars == <<id2img, feats, beit3_model, faiss_engine, models_loaded,
          temporal_engine, req, resp, indexes, disk, hdf5, loading>>

----------------------------------------------------------------------------
(* Bounds *)
MaxFrames == 3      \* rows of the free video's feature matrix
MaxSentences == 3   \* sentences of a temporal query
MaxK == 2           \* k / limit of a request
MaxGap == 2         \* w_min and w_max range over 1..MaxGap

(* Sentinels *)
None == "None"             \* a missing video id
NoneArg == -7              \* an argument passed as None
BadSource == -8            \* an image source that cannot be loaded
NegInfScore == -1000000     \* score faiss pads with (units of 1/10)

Min(a, b) == IF a < b THEN a ELSE b
Max(a, b) == IF a > b THEN a ELSE b
Abs(a) == IF a < 0 THEN -a ELSE a

----------------------------------------------------------------------------
(* Embeddings *)
Angles == 0..5
Cos10 == <<10, 5, -5, -10, -5, 5>>
\* inner product of two unit vectors, units of 1/10
Dot(a, b) == Cos10[((a - b) % 6) + 1]

SupportedModels == {"clip", "longclip", "clip2video", "beit3"}
ModelTypes == SupportedModels \cup {"all"}

\* ranked units kept per sentence ("temp = 20")
temp == 20

\* the flat indexes read at construction: angle of the vector stored under id i-1;
\* the indexes that go with a map of more than temp ids hold as many equal
\* vectors as the map has ids
IndexVecs(m) ==
    IF Cardinality(DOMAIN id2img) > temp
    THEN [i \in 1..Cardinality(DOMAIN id2img) |-> 0]
    ELSE CASE m = "clip"     -> <<0, 1, 2, 3, 4, 5>>
           [] m = "longclip" -> <<1, 1, 3, 0, 5, 2>>
           [] m = "beit3"    -> <<2, 0, 0, 4, 1, 3>>

NTotal(m) == Len(IndexVecs(m))

\* the text encoders: the embedding of sentence s in model m's space
EncOffset(m) ==
    CASE m = "clip" -> 0 [] m = "longclip" -> 1 [] m = "beit3" -> 2
EncodeText(m, s) == (s + EncOffset(m)) % 6

----------------------------------------------------------------------------
(* Asset paths: <root>/Keyframes_<batch>/keyframes/<video_id>/<frame>.jpg   *)
Videos == {"L01_V001", "L01_V002", "L02_V001"}
Path(v, f) == [video |-> v, frame |-> f]
\* os.path.basename(os.path.dirname(path))
VideoOf(p) == p.video
\* int(os.path.splitext(os.path.basename(path))[0])
FrameNoOf(p) == p.frame
NoPath == [video |-> None, frame |-> 0]     \* id2img.get(i) of an unmapped id

----------------------------------------------------------------------------
(* Sequence helpers *)
\* the table of f: TLC applies a function constructor anew at every use,
\* the table is built once
Tabulate(f) == f @@ f

Range(s) == {s[i] : i \in 1..Len(s)}
Prefix(s, n) == SubSeq(s, 1, Min(n, Len(s)))

RECURSIVE Flatten(_)
Flatten(ss) == IF ss = <<>> THEN <<>> ELSE Head(ss) \o Flatten(Tail(ss))

RECURSIVE Filter(_, _)
\* the elements of s whose position is in keep, in order
Filter(s, keep) ==
    IF s = <<>> THEN <<>>
    ELSE LET n == Len(s)
             front == Filter(SubSeq(s, 1, n - 1), keep)
         IN  IF n \in keep THEN Append(front, s[n]) ELSE front

----------------------------------------------------------------------------
(* faiss: index.search(q, k) and index.reconstruct(id) of a flat            *)
(* inner-product index                                                      *)
IndexScore(m, q, i) == Dot(q, IndexVecs(m)[i + 1])

\* the best of the ids S under the scores sc: highest score, then lowest id
IndexBest(sc, S) ==
    CHOOSE i \in S : \A j \in S :
        sc[i] > sc[j] \/ (sc[i] = sc[j] /\ i <= j)

RECURSIVE IndexRank(_, _, _)
IndexRank(sc, S, k) ==
    IF k = 0 THEN <<>>
    ELSE IF S = {} THEN <<-1>> \o IndexRank(sc, S, k - 1)
    ELSE LET b == IndexBest(sc, S)
         IN  <<b>> \o IndexRank(sc, S \ {b}, k - 1)

\* k ids by descending score, padded with id -1 and the lowest score
IndexSearch(m, q, k) ==
    LET sc == Tabulate([i \in 0..(NTotal(m) - 1) |-> IndexScore(m, q, i)])
        idxs == IndexRank(sc, DOMAIN sc, k)
    IN  [idxs   |-> idxs,
         scores |-> Tabulate([i \in 1..k |-> IF idxs[i] = -1 THEN NegInfScore
                                             ELSE sc[idxs[i]]])]

CanReconstruct(m, i) == i \in 0..(NTotal(m) - 1)

----------------------------------------------------------------------------
(* MyFaiss.text_search / MyFaiss.image_search                               *)
Raise(kind) == [raised |-> TRUE, kind |-> kind]

\* [self.id2img.get(int(i)) for i in idxs if int(i) in self.id2img]
MappedPaths(idxs) ==
    LET kept == Filter(idxs, {i \in 1..Len(idxs) : idxs[i] \in DOMAIN id2img})
    IN  [i \in 1..Len(kept) |-> id2img[kept[i]]]

SearchOutcome(m, q, k) ==
    LET r == IndexSearch(m, q, k)
    IN  [raised |-> FALSE, scores |-> r.scores, idxs |-> r.idxs,
         paths |-> MappedPaths(r.idxs)]

\* rnd: the vector np.random.randn yields when the BEiT-3 model is missing
MyFaiss_text_search(s, k, m, rnd) ==
    IF m = "clip" THEN SearchOutcome("clip", EncodeText("clip", s), k)
    ELSE IF m = "longclip"
        THEN SearchOutcome("longclip", EncodeText("longclip", s), k)
    ELSE IF m = "beit3"
        THEN SearchOutcome("beit3",
                 IF beit3_model THEN EncodeText("beit3", s) ELSE rnd, k)
    ELSE IF m = "clip2video"
        THEN Raise("AttributeError")      \* self.clip2video_model is never set
    ELSE Raise("NotImplementedError")

\* image_id: an integer or NoneArg; image_source: the image's embedding,
\* BadSource or NoneArg
MyFaiss_image_search(k, m, image_id, image_source) ==
    IF m \notin {"clip", "longclip"} THEN Raise("NotImplementedError")
    ELSE IF image_id = NoneArg /\ image_source = NoneArg THEN Raise("ValueError")
    ELSE IF image_id # NoneArg /\ image_source # NoneArg THEN Raise("ValueError")
    ELSE IF image_id # NoneArg
        THEN IF CanReconstruct(m, image_id)
                THEN SearchOutcome(m, IndexVecs(m)[image_id + 1], k)
                ELSE Raise("RuntimeError")   \* no features_store to fall back on
    ELSE IF image_source = BadSource THEN Raise("ValueError")
    ELSE IF m = "clip"
        THEN Raise("AttributeError")      \* self.clip_preprocess is never set
    ELSE SearchOutcome("longclip", image_source, k)

----------------------------------------------------------------------------
(* MyFaiss.temporal_search                                                  *)
anchor_top == 5
anchor_window == 2
AnchorBoostNum == 1         \* anchor_boost = 1/10
AnchorBoostDen == 10
SimScale == 20              \* units of the raw similarities 0.5 * dot + 0.5
NormScale == 60             \* units of the normalised similarities and bonuses
EpsDen == 1000000           \* 1e-6
ScoreScale == 6             \* result scores are in units of 1/(NormScale * 6)
\* the mask value -1e9 and the test value -1e8: 32-bit integers cannot hold
\* them in units of 1/NormScale, so they are kept as they are written, far
\* below every sum of similarities
NegMask == -1000000000
NegThreshold == -100000000

\* [s.strip() for s in text.split(".") if s.strip()]
Sentences(text) == Filter(text, {i \in 1..Len(text) : text[i] # 0})

\* self.load_video_features(model_type, video_id)
LoadOk(v) == feats[v].ok
VideoFeatures(v) == feats[v].rows

\* (text_feat @ video_features.T) * 0.5 + 0.5, as a function on rows 0..N-1
Sims(t, rows) ==
    Tabulate([j \in 0..(Len(rows) - 1) |->
                 Dot(t, rows[j + 1]) + (SimScale \div 2)])

SeqMin(f) == CHOOSE x \in {f[j] : j \in DOMAIN f} : \A j \in DOMAIN f : x <= f[j]
SeqMax(f) == CHOOSE x \in {f[j] : j \in DOMAIN f} : \A j \in DOMAIN f : x >= f[j]

\* Normalize dividing the similarities themselves by the span
Normalize_Unshifted(sims) ==
    LET smin == SeqMin(sims)
        smax == SeqMax(sims)
    IN  IF (smax - smin) * EpsDen < SimScale
            THEN [j \in DOMAIN sims |-> 0]
            ELSE Tabulate([j \in DOMAIN sims |->
                     (sims[j] * NormScale) \div (smax - smin)])

\* per-sentence min-max normalisation to [0, 1]
Normalize(sims) ==
    LET smin == SeqMin(sims)
        smax == SeqMax(sims)
    IN  IF (smax - smin) * EpsDen < SimScale
            THEN [j \in DOMAIN sims |-> 0]
            ELSE Tabulate([j \in DOMAIN sims |->
                     ((sims[j] - smin) * NormScale) \div (smax - smin)])

\* anchor_boost * (1 - |t - j| / (anchor_window + 1))
AnchorValue(t, j) ==
    (AnchorBoostNum * NormScale * (anchor_window + 1 - Abs(t - j)))
        \div (AnchorBoostDen * (anchor_window + 1))

\* the bonus row of one sentence for video v with N rows
Bonus(ranked_units, v, N) ==
    LET own  == Filter(ranked_units,
                    {i \in 1..Len(ranked_units) : ranked_units[i].video_id = v})
        hits == Prefix(own, anchor_top)
        js   == {FrameNoOf(hits[i].image_path) - 1 : i \in 1..Len(hits)}
        near(t) == {j \in js : /\ 0 <= j /\ j < N
                               /\ Max(0, j - anchor_window) <= t
                               /\ t < Min(N, j + anchor_window + 1)}
    IN  Tabulate([t \in 0..(N - 1) |->
            IF near(t) = {} THEN 0
            ELSE CHOOSE b \in {AnchorValue(t, j) : j \in near(t)} :
                     \A j \in near(t) : b >= AnchorValue(t, j)])

\* ValidGap with the upper bound forgotten
ValidGap_NoMax(j, c, w_min, w_max) == c - j >= w_min

\* gap >= w_min, and gap <= w_max when w_max is given
ValidGap(j, c, w_min, w_max) ==
    /\ c - j >= w_min
    /\ (w_max = NoneArg \/ c - j <= w_max)

\* a mask value that does not outweigh the similarities
FAdd_WeakMask(a, b) == IF a <= NegThreshold THEN b ELSE a + b

\* float32 addition: -1e9 absorbs an addend of the size of a similarity
FAdd(a, b) == IF a <= NegThreshold THEN a ELSE a + b

\* first index of the largest value (torch.argmax / Tensor.max(dim=1))
ArgMax(f) ==
    CHOOSE j \in DOMAIN f :
        /\ \A c \in DOMAIN f : f[j] >= f[c]
        /\ \A c \in DOMAIN f : c < j => f[c] < f[j]

\* DPLayer pointing at the first admissible column instead of the best one
DPLayer_FirstValid(score_next, w_row, N, w_min, w_max) ==
    LET masked == Tabulate([j \in 0..(N - 1) |-> Tabulate([c \in 0..(N - 1) |->
                         IF ValidGap(j, c, w_min, w_max) THEN score_next[c]
                                                         ELSE NegMask])])
        best_vals == Tabulate([j \in 0..(N - 1) |-> SeqMax(masked[j])])
        first_cols == Tabulate([j \in 0..(N - 1) |->
                         CHOOSE c \in 0..(N - 1) :
                             /\ masked[j][c] > NegThreshold \/ best_vals[j] <= NegThreshold
                             /\ \A d \in 0..(c - 1) : masked[j][d] <= NegThreshold
                                                       /\ best_vals[j] > NegThreshold])
    IN  [score   |-> Tabulate([j \in 0..(N - 1) |-> FAdd(best_vals[j], w_row[j])]),
         pointer |-> Tabulate([j \in 0..(N - 1) |->
                         IF best_vals[j] > NegThreshold THEN first_cols[j]
                                                        ELSE -1])]

\* one pass of the loop "for i in range(M - 1, 0, -1)"
DPLayer(score_next, w_row, N, w_min, w_max) ==
    LET masked == Tabulate([j \in 0..(N - 1) |-> Tabulate([c \in 0..(N - 1) |->
                         IF ValidGap(j, c, w_min, w_max) THEN score_next[c]
                                                         ELSE NegMask])])
        best_vals == Tabulate([j \in 0..(N - 1) |-> SeqMax(masked[j])])
        best_cols == Tabulate([j \in 0..(N - 1) |-> ArgMax(masked[j])])
    IN  [score   |-> Tabulate([j \in 0..(N - 1) |-> FAdd(best_vals[j], w_row[j])]),
         pointer |-> Tabulate([j \in 0..(N - 1) |->
                         IF best_vals[j] > NegThreshold THEN best_cols[j]
                                                        ELSE -1])]

RECURSIVE DPBuild(_, _, _, _, _, _)
\* acc holds the layers of sentences t+1..M; the loop runs t = M-1 down to 1
DPBuild(W, N, w_min, w_max, t, acc) ==
    IF t = 0 THEN acc
    ELSE DPBuild(W, N, w_min, w_max, t - 1,
                 <<DPLayer(acc[1].score, W[t], N, w_min, w_max)>> \o acc)

\* layers[t]: scores of sentence t and the pointers from sentence t to t+1
DPTables(W, M, N, w_min, w_max) ==
    DPBuild(W, N, w_min, w_max, M - 1,
            <<[score |-> W[M], pointer |-> [j \in 0..(N - 1) |-> -1]]>>)

RECURSIVE Backtrack(_, _, _, _)
\* the frames after cur, following the pointers of sentences t..M-1
Backtrack(layers, M, t, cur) ==
    IF t > M - 1 THEN [feasible |-> TRUE, frames |-> <<>>]
    ELSE LET nxt == layers[t].pointer[cur]
         IN  IF nxt < 0 THEN [feasible |-> FALSE, frames |-> <<>>]
             ELSE LET rest == Backtrack(layers, M, t + 1, nxt)
                  IN  [feasible |-> rest.feasible,
                       frames |-> <<nxt>> \o rest.frames]

\* total_score * (100.0 / M), in units of 1/(NormScale * ScoreScale)
ScaledScore(total, M) == (total * 100 * ScoreScale) \div M

\* the work similarities W[i][j] of video v
WorkSims(T, per_sentence, v, M) ==
    LET rows == VideoFeatures(v)
        N == Len(rows)
    IN  Tabulate([i \in 1..M |->
            LET norm  == Normalize(Sims(T[i], rows))
                bonus == Bonus(per_sentence[i], v, N)
            IN  Tabulate([j \in 0..(N - 1) |-> norm[j] + bonus[j]])])

\* VideoResult also skipping a video of exactly M rows
VideoResult_SkipEqual(T, per_sentence, v, M, w_min, w_max) ==
    IF ~LoadOk(v) THEN <<>>
    ELSE IF Len(VideoFeatures(v)) = 0 THEN <<>>
    ELSE IF Len(VideoFeatures(v)) <= M THEN <<>>
    ELSE LET N == Len(VideoFeatures(v))
             W == WorkSims(T, per_sentence, v, M)
             layers == DPTables(W, M, N, w_min, w_max)
             f0 == ArgMax(layers[1].score)
             walk == Backtrack(layers, M, 1, f0)
             frames == <<f0>> \o walk.frames
         IN  IF walk.feasible /\ Len(frames) = M
                 THEN <<[video_id |-> v, frames |-> frames,
                         score |-> ScaledScore(layers[1].score[f0], M)]>>
                 ELSE <<>>

\* the body of "for video_id in candidate_videos": <<>> or <<result>>
VideoResult(T, per_sentence, v, M, w_min, w_max) ==
    IF ~LoadOk(v) THEN <<>>
    ELSE IF Len(VideoFeatures(v)) = 0 THEN <<>>
    ELSE IF Len(VideoFeatures(v)) < M THEN <<>>
    ELSE LET N == Len(VideoFeatures(v))
             W == WorkSims(T, per_sentence, v, M)
             layers == DPTables(W, M, N, w_min, w_max)
             f0 == ArgMax(layers[1].score)
             walk == Backtrack(layers, M, 1, f0)
             frames == <<f0>> \o walk.frames
         IN  IF walk.feasible /\ Len(frames) = M
                 THEN <<[video_id |-> v, frames |-> frames,
                         score |-> ScaledScore(layers[1].score[f0], M)]>>
                 ELSE <<>>

RECURSIVE ScanCandidates_StopAtFailure(_, _, _, _, _, _)
\* the loop over the candidates, ended by the first file that cannot be read
ScanCandidates_StopAtFailure(T, per_sentence, cands, M, w_min, w_max) ==
    IF cands = <<>> \/ ~LoadOk(Head(cands)) THEN <<>>
    ELSE VideoResult(T, per_sentence, Head(cands), M, w_min, w_max)
         \o ScanCandidates_StopAtFailure(T, per_sentence, Tail(cands),
                                         M, w_min, w_max)

\* "for video_id in candidate_videos": the results found, in candidate order
ScanCandidates(T, per_sentence, cands, M, w_min, w_max) ==
    Flatten([c \in 1..Len(cands) |->
                VideoResult(T, per_sentence, cands[c], M, w_min, w_max)])

\* the ranked units of one sentence's index search
RankedUnits(m, q, topk) ==
    LET r == IndexSearch(m, q, topk)
    IN  Tabulate([n \in 1..topk |->
            LET img_path == IF r.idxs[n] \in DOMAIN id2img
                            THEN id2img[r.idxs[n]] ELSE NoPath
            IN  [video_id   |-> IF img_path # NoPath THEN VideoOf(img_path)
                                                     ELSE None,
                 image_path |-> img_path,
                 faiss_id   |-> r.idxs[n],
                 score      |-> r.scores[n]]])

RECURSIVE Admit_NoCap(_, _, _)
\* Admit without the test against max_candidate_videos
Admit_NoCap(cands, vids, max_candidate_videos) ==
    IF vids = <<>> THEN cands
    ELSE LET v == Head(vids)
             next == IF v # None /\ v \notin Range(cands)
                     THEN Append(cands, v) ELSE cands
         IN  Admit_NoCap(next, Tail(vids), max_candidate_videos)

RECURSIVE Admit(_, _, _)
\* candidate_videos after scanning the video ids vids in order
Admit(cands, vids, max_candidate_videos) ==
    IF vids = <<>> THEN cands
    ELSE LET v == Head(vids)
             next == IF /\ v # None
                        /\ v \notin Range(cands)
                        /\ Len(cands) < max_candidate_videos
                     THEN Append(cands, v) ELSE cands
         IN  Admit(next, Tail(vids), max_candidate_videos)

\* the sort left out
SortByScoreDesc_None(rs) == rs

RECURSIVE SortByScoreDesc(_)
\* list.sort(key=score, reverse=True): stable
SortByScoreDesc(rs) ==
    IF rs = <<>> THEN <<>>
    ELSE LET n == Len(rs)
             front == SortByScoreDesc(SubSeq(rs, 1, n - 1))
             pos == Cardinality({i \in 1..Len(front) : front[i].score >= rs[n].score})
         IN  SubSeq(front, 1, pos) \o <<rs[n]>> \o SubSeq(front, pos + 1, Len(front))

RECURSIVE OnePerUnit(_, _, _, _, _)
\* the loop of the single-sentence branch over zip(scores, paths)
OnePerUnit(scores, paths, n, out, k) ==
    IF n > Min(Len(scores), Len(paths)) THEN out
    ELSE LET unit_id == VideoOf(paths[n])
         IN  IF unit_id \in {o.unit_id : o \in Range(out)}
                 THEN OnePerUnit(scores, paths, n + 1, out, k)
             ELSE LET out2 == Append(out, [unit_id |-> unit_id,
                                           frames |-> <<NoneArg>>,
                                           score |-> scores[n] * 36])
                  IN  IF Len(out2) >= k THEN out2
                      ELSE OnePerUnit(scores, paths, n + 1, out2, k)

\* the query vectors of the sentences (rnd: the random vectors drawn when
\* the BEiT-3 model is missing)
TextFeats(sentences, m, rnd) ==
    Tabulate([i \in 1..Len(sentences) |->
        IF m = "beit3" /\ ~beit3_model THEN rnd[i]
        ELSE EncodeText(m, sentences[i])])

MyFaiss_temporal_search(text, k, m, topk_per_sentence, max_candidate_videos, w_min, w_max, rnd) ==
    LET sentences == Sentences(text)
        M == Len(sentences)
    IN  IF M = 0 THEN Raise("AssertionError")
        ELSE IF M = 1 THEN
            LET r == MyFaiss_text_search(sentences[1], k, m, rnd[1])
            IN  IF r.raised THEN r
                ELSE LET out == OnePerUnit(r.scores, r.paths, 1, <<>>, k)
                     IN  [raised |-> FALSE, sentences |-> sentences,
                          candidates |-> {o.unit_id : o \in Range(out)},
                          results |-> out]
        ELSE IF m \notin {"clip", "longclip", "beit3"}
            THEN Raise("NotImplementedError")
        ELSE
            LET T == TextFeats(sentences, m, rnd)
                ranked == Tabulate([i \in 1..M |->
                              RankedUnits(m, T[i], topk_per_sentence)])
                vids == Flatten([i \in 1..M |->
                            [n \in 1..topk_per_sentence |-> ranked[i][n].video_id]])
                candidate_videos == Admit(<<>>, vids, max_candidate_videos)
                per_sentence == Tabulate([i \in 1..M |-> Prefix(ranked[i], temp)])
                found == ScanCandidates(T, per_sentence, candidate_videos,
                                        M, w_min, w_max)
                sorted == SortByScoreDesc(found)
            IN  [raised |-> FALSE, sentences |-> sentences,
                 per_sentence |-> per_sentence,
                 candidate_videos |-> candidate_videos,
                 results |-> IF k > 0 THEN Prefix(sorted, k) ELSE sorted]

----------------------------------------------------------------------------
(* The data the engine is constructed from *)
FullMap ==
    (0 :> Path("L01_V001", 1)) @@ (1 :> Path("L01_V001", 2)) @@
    (2 :> Path("L01_V001", 3)) @@ (3 :> Path("L01_V002", 1)) @@
    (4 :> Path("L01_V002", 2)) @@ (5 :> Path("L02_V001", 1))
\* a map that lacks id 1 (what fix_id2img_mapping.py leaves for a gap)
GapMap == [i \in (DOMAIN FullMap) \ {1} |-> FullMap[i]]
\* a map whose ids 3 and 4 name the same keyframe file
DupMap == [i \in DOMAIN FullMap |-> IF i = 4 THEN FullMap[3] ELSE FullMap[i]]

FrameAngles == {0, 3}
Loaded(rows) == [ok |-> TRUE, rows |-> rows]
Unreadable == [ok |-> FALSE, rows |-> <<>>]
\* every feature file of at most MaxFrames rows, an empty one, a missing one
FreeFeats ==
    {Unreadable} \cup
    {Loaded(rows) : rows \in UNION {[1..n -> FrameAngles] : n \in 0..MaxFrames}}

FeatWorlds ==
    {[v \in Videos |-> CASE v = "L01_V001" -> a
                         [] v = "L01_V002" -> Loaded(<<0, 1, 3>>)
                         [] v = "L02_V001" -> Loaded(<<4, 2>>)] :
        a \in FreeFeats}

SmallFeats ==
    [v \in Videos |-> CASE v = "L01_V001" -> Loaded(<<0, 3, 0>>)
                        [] v = "L01_V002" -> Unreadable
                        [] v = "L02_V001" -> Loaded(<<4, 2, 1>>)]

\* a map of temp + 2 ids: the keyframes of L01_V002, and under the last id
\* the second keyframe of L01_V001
LargeMap ==
    [i \in 0..(temp + 1) |-> IF i = temp + 1 THEN Path("L01_V001", 2)
                                              ELSE Path("L01_V002", i + 1)]

\* (id2img, feature files, BEiT-3 model present)
Worlds ==
    {<<FullMap, f, TRUE>> : f \in FeatWorlds} \cup
    {<<mp, SmallFeats, b>> : mp \in {FullMap, GapMap, DupMap}, b \in BOOLEAN} \cup
    {<<LargeMap, SmallFeats, TRUE>>}

SentenceTokens == 1..2      \* segment 0 is blank
\* texts of at most MaxSentences sentences, each closed by a "."
Texts ==
    {s \o <<0>> : s \in UNION {[1..n -> SentenceTokens] : n \in 0..MaxSentences}}
RandomAngles == {0, 3}
Gaps == 1..MaxGap
\* (k, topk_per_sentence, max_candidate_videos)
Sizes == {<<k, 2, 1>> : k \in 1..MaxK} \cup {<<k, 6, 3>> : k \in 1..MaxK}
\* the sizes tried with model m
SizesFor(m) ==
    IF id2img = LargeMap THEN {<<MaxK, temp + 2, 3>>}
    ELSE IF m = "clip" THEN Sizes \cup {<<0, 6, 3>>}
    ELSE {<<MaxK, 6, 3>>, <<MaxK, 2, 2>>}

----------------------------------------------------------------------------
(* The indexer objects as constructed                                       *)
\* FAISSIndex.__init__: no index, no metadata, feature_dim None
NoIndex == [d |-> 0, vecs |-> <<>>, built |-> FALSE, supplied |-> <<>>]
NoMetadata == <<>>
FreshIndex ==
    [index |-> NoIndex, metadata |-> NoMetadata, feature_dim |-> NoneArg,
     is_trained |-> FALSE]
IndexObjects == {"faiss_index", "loaded_index"}
\* a path at which no file exists
NoFile == [exists |-> FALSE]
\* no HDF5Storage object yet, no file on disk, no open handle on it
NoStorage ==
    [made |-> FALSE, origin |-> "none", mode |-> "a", _file |-> "None",
     in_block |-> FALSE, handles |-> 0, file |-> NoFile]

InitIndexer ==
    /\ indexes = [o \in IndexObjects |-> FreshIndex]
    /\ disk = [index_file |-> NoFile, metadata_file |-> NoFile]
    /\ hdf5 = NoStorage

\* ModelManager.__init__ and SearchService.__init__: no service exists yet
\* (manager), the loading lock is free and no request is inside
\* _ensure_models_loaded; built counts the MyFaiss constructions since the
\* last cleanup, assigned tells whether the latest load has assigned
\* _faiss_engine
MaxTasks == 3       \* concurrent requests to one SearchService
Tasks == 1..MaxTasks
LockFree == 0
NotLoading ==
    [pc |-> [t \in Tasks |-> "idle"], lock |-> LockFree, built |-> 0,
     assigned |-> FALSE, manager |-> FALSE]
InitLoading == loading = NotLoading

NoRequest == [op |-> "none"]
NoResponse == [raised |-> FALSE, results |-> <<>>]

Init ==
    /\ \E w \in Worlds : id2img = w[1] /\ feats = w[2] /\ beit3_model = w[3]
    /\ faiss_engine = FALSE
    /\ models_loaded = FALSE
    /\ temporal_engine = FALSE
    /\ req = NoRequest
    /\ resp = NoResponse
    /\ InitIndexer
    /\ InitLoading

\* the draws of np.random.randn a call can make
Draws(m, n) ==
    IF m = "beit3" /\ ~beit3_model THEN [1..n -> RandomAngles]
    ELSE {[i \in 1..n |-> 0]}

\* the gap arguments tried with a text: a text of fewer than two sentences
\* never reads them
GapArgs(text) ==
    IF Len(Sentences(text)) < 2 THEN {<<1, NoneArg>>}
    ELSE Gaps \X (Gaps \cup {NoneArg})

\* a direct call of MyFaiss.temporal_search, as main() makes it
TemporalSearchCall ==
    /\ req = NoRequest
    /\ \E text \in Texts, m \in {"clip", "beit3", "clip2video"} :
      \E sz \in SizesFor(m), gap \in GapArgs(text), rnd \in Draws(m, Len(text)) :
      LET w_min == gap[1]
          w_max == gap[2]
      IN
        /\ req' = [op |-> "temporal_search", text |-> text, k |-> sz[1],
                   model_type |-> m, topk_per_sentence |-> sz[2],
                   max_candidate_videos |-> sz[3],
                   w_min |-> w_min, w_max |-> w_max, rnd |-> rnd]
        /\ resp' = MyFaiss_temporal_search(text, sz[1], m, sz[2], sz[3],
                                           w_min, w_max, rnd)
        /\ UNCHANGED <<loading, indexes, disk, hdf5, id2img, feats, beit3_model, faiss_engine,
                       models_loaded, temporal_engine>>

\* the caller takes the response; the next request can come
Return ==
    /\ req # NoRequest
    /\ req' = NoRequest
    /\ resp' = NoResponse
    /\ UNCHANGED <<loading, indexes, disk, hdf5, id2img, feats, beit3_model, faiss_engine,
                   models_loaded, temporal_engine>>

NextEngine == TemporalSearchCall \/ Return

SpecEngine == Init /\ [][NextEngine]_vars

----------------------------------------------------------------------------
(* Properties of MyFaiss.temporal_search                                    *)
IsTemporal == req.op = "temporal_search"
\* a temporal call of M >= 2 sentences that returned
Aligned ==
    /\ IsTemporal
    /\ ~resp.raised
    /\ Len(Sentences(req.text)) >= 2
ReqM == Len(Sentences(req.text))
ResultVideos == {resp.results[n].video_id : n \in 1..Len(resp.results)}

\* the gap-feasible sequences of M rows out of N
FeasiblePaths(N, M, w_min, w_max) ==
    {p \in [1..M -> 0..(N - 1)] :
        \A t \in 1..(M - 1) : ValidGap(p[t], p[t + 1], w_min, w_max)}

RECURSIVE PathSum(_, _, _)
\* W[1][p[1]] + ... + W[t][p[t]]
PathSum(W, p, t) == IF t = 0 THEN 0 ELSE PathSum(W, p, t - 1) + W[t][p[t]]

\* the work similarities the answered call used for video v
ReqW(v) ==
    WorkSims(TextFeats(Sentences(req.text), req.model_type, req.rnd),
             resp.per_sentence, v, ReqM)

\* C1: every result of a query of M >= 2 sentences has exactly M frames,
\* strictly increasing, with every consecutive difference in [w_min, w_max]
\* (w_max None: unbounded) and every frame a row of the video's matrix
C1_FramesWithinGaps ==
    Aligned =>
        \A n \in 1..Len(resp.results) :
            LET r == resp.results[n]
            IN  /\ Len(r.frames) = ReqM
                /\ \A t \in 1..(ReqM - 1) :
                       /\ r.frames[t] < r.frames[t + 1]
                       /\ r.frames[t + 1] - r.frames[t] >= req.w_min
                       /\ req.w_max # NoneArg =>
                              r.frames[t + 1] - r.frames[t] <= req.w_max
                /\ \A t \in 1..ReqM :
                       /\ 0 <= r.frames[t]
                       /\ r.frames[t] < Len(VideoFeatures(r.video_id))

\* a result under a bounded gap on a video with more rows than sentences
C1_Witness ==
    /\ Aligned
    /\ req.w_max = 1
    /\ \E n \in 1..Len(resp.results) :
           Len(VideoFeatures(resp.results[n].video_id)) > ReqM

\* C2: the frames of every result attain the maximum of the summed work
\* similarities over all gap-feasible sequences, and the score is that
\* maximum times 100/M
C2_OptimalAlignment ==
    Aligned =>
        \A n \in 1..Len(resp.results) :
            LET r == resp.results[n]
                W == ReqW(r.video_id)
                N == Len(VideoFeatures(r.video_id))
                paths == FeasiblePaths(N, ReqM, req.w_min, req.w_max)
                total == PathSum(W, r.frames, ReqM)
            IN  /\ r.frames \in paths
                /\ \A p \in paths : PathSum(W, p, ReqM) <= total
                /\ r.score = ScaledScore(total, ReqM)

\* a result whose video has a feasible sequence scoring less than the best
C2_Witness ==
    /\ Aligned
    /\ \E n \in 1..Len(resp.results) :
           LET r == resp.results[n]
               W == ReqW(r.video_id)
               N == Len(VideoFeatures(r.video_id))
           IN  \E p \in FeasiblePaths(N, ReqM, req.w_min, req.w_max) :
                   PathSum(W, p, ReqM) < PathSum(W, r.frames, ReqM)

\* a candidate whose features cannot be used: the load raises, the matrix
\* is empty, or it has fewer rows than the query has sentences
Unusable(v) ==
    \/ ~LoadOk(v)
    \/ Len(VideoFeatures(v)) = 0
    \/ Len(VideoFeatures(v)) < ReqM

\* the candidates with a gap-feasible sequence
Alignable ==
    {v \in Range(resp.candidate_videos) :
        /\ ~Unusable(v)
        /\ FeasiblePaths(Len(VideoFeatures(v)), ReqM, req.w_min, req.w_max) # {}}

\* C7: a call of M >= 2 sentences with a model temporal_search supports
\* returns without an error; no unusable candidate is among the results, and
\* the results are the candidates that have a feasible sequence, all of them
\* unless a k >= 1 cuts the list
C7_FailuresIsolated ==
    (/\ IsTemporal
     /\ ReqM >= 2
     /\ req.model_type \in {"clip", "longclip", "beit3"}) =>
        /\ ~resp.raised
        /\ \A v \in Range(resp.candidate_videos) : Unusable(v) => v \notin ResultVideos
        /\ ResultVideos \subseteq Alignable
        /\ Len(resp.results) = IF req.k > 0
                                   THEN Min(req.k, Cardinality(Alignable))
                                   ELSE Cardinality(Alignable)
        /\ Cardinality(ResultVideos) = Len(resp.results)

\* an unusable candidate is followed by a candidate that yields a result
C7_Witness ==
    /\ Aligned
    /\ \E a, b \in 1..Len(resp.candidate_videos) :
           /\ a < b
           /\ Unusable(resp.candidate_videos[a])
           /\ resp.candidate_videos[b] \in ResultVideos

\* C9: the results of a temporal_search with k >= 1 are sorted by
\* non-increasing score and are at most k, whatever the number of sentences
C9_SortedAtMostK ==
    (IsTemporal /\ ~resp.raised /\ req.k >= 1) =>
        /\ Len(resp.results) <= req.k
        /\ \A n \in 1..(Len(resp.results) - 1) :
               resp.results[n].score >= resp.results[n + 1].score

\* two results of a multi-sentence query, the later candidate ranked first
C9_Witness ==
    /\ Aligned
    /\ Len(resp.results) = 2
    /\ resp.results[1].score > resp.results[2].score
    /\ \E a, b \in 1..Len(resp.candidate_videos) :
           /\ a < b
           /\ resp.candidate_videos[b] = resp.results[1].video_id
           /\ resp.candidate_videos[a] = resp.results[2].video_id

----------------------------------------------------------------------------
(* SearchService                                                            *)
\* a SearchResult: image_id "<label>_<idx>", score (units of 1/10), link
SearchResult(label, idx, score, link) ==
    [image_id |-> <<label, idx>>, score |-> score, link |-> link]

\* SearchService._mock_search_results: link "/mock/image_<i>.jpg"
MockLimit == 10
MockTopScore == 9
_mock_search_results(limit, search_type) ==
    [n \in 1..Min(limit, MockLimit) |->
        SearchResult("mock_" \o search_type, n - 1, MockTopScore - (n - 1),
                     Path("mock", n - 1))]

\* the similarity_threshold of text_search, units of 1/10
FloorLongClip == 10
FloorBeit3 == 4
FloorClip == 2
similarity_threshold(m) ==
    IF m \in {"longclip", "clip2video"} THEN FloorLongClip
    ELSE IF m = "beit3" THEN FloorBeit3
    ELSE FloorClip

\* for score, idx, path in zip(scores, idxs, image_paths):
\*     if path: results.append(SearchResult(...))
ZipResults(label, r) ==
    [i \in 1..Min(Len(r.scores), Len(r.paths)) |->
        SearchResult(label, r.idxs[i], r.scores[i], r.paths[i])]

\* the results text_search keeps: score >= similarity_threshold
AboveThreshold(results, floor) ==
    Filter(results, {i \in 1..Len(results) : results[i].score >= floor})

\* the hits an engine call adds to all_results: none when it raises
Collected(label, r) ==
    IF r.raised THEN <<>> ELSE ZipResults(label, r)

RECURSIVE _remove_duplicates(_, _, _)
\* the first result of every image_id, stopping at limit
_remove_duplicates(results, unique_results, limit) ==
    IF results = <<>> THEN unique_results
    ELSE LET r == Head(results)
         IN  IF r.image_id \in {u.image_id : u \in Range(unique_results)}
                 THEN _remove_duplicates(Tail(results), unique_results, limit)
             ELSE IF Len(unique_results) + 1 >= limit
                 THEN Append(unique_results, r)
             ELSE _remove_duplicates(Tail(results),
                                     Append(unique_results, r), limit)

RECURSIVE UniqueByLink_KeepLast(_, _, _)
\* every link once, a later result replacing the one kept
UniqueByLink_KeepLast(results, unique_results, limit) ==
    IF results = <<>> THEN unique_results
    ELSE LET r == Head(results)
             others == Filter(unique_results,
                           {i \in 1..Len(unique_results) :
                               unique_results[i].link # r.link})
         IN  IF Len(others) >= limit THEN unique_results
             ELSE UniqueByLink_KeepLast(Tail(results), Append(others, r), limit)

RECURSIVE UniqueByLink(_, _, _)
\* the loop over sorted(all_results): the first result of every link,
\* stopping at limit
UniqueByLink(results, unique_results, limit) ==
    IF results = <<>> THEN unique_results
    ELSE LET r == Head(results)
         IN  IF r.link \in {u.link : u \in Range(unique_results)}
                 THEN UniqueByLink(Tail(results), unique_results, limit)
             ELSE IF Len(unique_results) + 1 >= limit
                 THEN Append(unique_results, r)
             ELSE UniqueByLink(Tail(results), Append(unique_results, r), limit)

\* SearchService._enhance_results_with_metadata: the metadata fields are
\* added, image_id, score and link are copied
_enhance_results_with_metadata(results) ==
    [i \in 1..Len(results) |->
        [image_id |-> results[i].image_id, score |-> results[i].score,
         link |-> results[i].link]]

\* all_results of _search_all_models when a raise ends the whole search
TextHitsAllModels_AbortOnRaise(query, limit, rnd) ==
    IF \E m \in SupportedModels : MyFaiss_text_search(query, limit, m, rnd).raised
        THEN <<>>
    ELSE Collected("clip2video", MyFaiss_text_search(query, limit, "clip", rnd))
         \o Collected("longclip", MyFaiss_text_search(query, limit, "longclip", rnd))
         \o Collected("beit3", MyFaiss_text_search(query, limit, "beit3", rnd))

\* all_results of _search_all_models: the CLIP hits carry the clip2video label
TextHitsAllModels(query, limit, rnd) ==
    Collected("clip2video", MyFaiss_text_search(query, limit, "clip", rnd))
    \o Collected("longclip", MyFaiss_text_search(query, limit, "longclip", rnd))
    \o Collected("clip2video", MyFaiss_text_search(query, limit, "clip2video", rnd))
    \o Collected("beit3", MyFaiss_text_search(query, limit, "beit3", rnd))

_search_all_models(query, limit, rnd) ==
    UniqueByLink(SortByScoreDesc(TextHitsAllModels(query, limit, rnd)),
                 <<>>, limit)

\* all_results of _image_search_all_models and _neighbor_search_all_models
ImageHitsAllModels(limit, image_id, image_source) ==
    Collected("clip", MyFaiss_image_search(limit, "clip", image_id, image_source))
    \o Collected("longclip",
           MyFaiss_image_search(limit, "longclip", image_id, image_source))
    \o Collected("clip2video",
           MyFaiss_image_search(limit, "clip2video", image_id, image_source))
    \o Collected("beit3",
           MyFaiss_image_search(limit, "beit3", image_id, image_source))

_image_search_all_models(image_source, limit) ==
    UniqueByLink(SortByScoreDesc(ImageHitsAllModels(limit, NoneArg, image_source)),
                 <<>>, limit)

\* int(image_id.split("_")[-1]), 0 when the last part is not a number
NotANumber == -9
numeric_id(image_id) ==
    IF image_id[Len(image_id)] = NotANumber THEN 0 ELSE image_id[Len(image_id)]

_neighbor_search_all_models(image_id, limit) ==
    UniqueByLink(SortByScoreDesc(
                     ImageHitsAllModels(limit, numeric_id(image_id), NoneArg)),
                 <<>>, limit)

Returned(results) == [raised |-> FALSE, results |-> results]

\* SearchService.text_search once the models are ensured; engine: whether
\* self._faiss_engine is set
text_search(engine, query, model_type, limit, rnd) ==
    IF ~engine THEN Returned(_mock_search_results(limit, "text"))
    ELSE IF model_type = "all"
        THEN Returned(_search_all_models(query, limit, rnd))
    ELSE LET r == MyFaiss_text_search(query, limit, model_type, rnd)
         IN  IF r.raised      \* no ValueError comes out of MyFaiss.text_search
                 THEN Returned(_mock_search_results(limit, "text"))
             ELSE LET results == AboveThreshold(ZipResults(model_type, r),
                                                similarity_threshold(model_type))
                  IN  IF results = <<>> THEN Returned(<<>>)
                      ELSE Returned(_enhance_results_with_metadata(
                               _remove_duplicates(results, <<>>, limit)))

image_search(engine, image_source, model_type, limit) ==
    IF ~engine THEN Returned(_mock_search_results(limit, "image"))
    ELSE IF model_type = "all"
        THEN Returned(_image_search_all_models(image_source, limit))
    ELSE LET r == MyFaiss_image_search(limit, model_type, NoneArg, image_source)
         IN  IF r.raised THEN Returned(_mock_search_results(limit, "image"))
             ELSE Returned(_enhance_results_with_metadata(
                      _remove_duplicates(ZipResults(model_type, r), <<>>, limit)))

neighbor_search(engine, image_id, model_type, limit) ==
    IF ~engine THEN Returned(_mock_search_results(limit, "neighbor"))
    ELSE IF model_type = "all"
        THEN Returned(_neighbor_search_all_models(image_id, limit))
    ELSE LET r == MyFaiss_image_search(limit, model_type,
                                       numeric_id(image_id), NoneArg)
         IN  IF r.raised THEN Returned(_mock_search_results(limit, "neighbor"))
             ELSE Returned(ZipResults(model_type, r))

\* SearchService.visual_search
visual_search(limit) == Returned(_mock_search_results(limit, "visual"))

----------------------------------------------------------------------------
(* TemporalService                                                          *)
\* the fallback data of TemporalService.temporal_search; score 0.85 in
\* units of 1/360
MockVideo == "L21_V001"
MockFrames == <<10, 25, 40>>
MockScore == 306
MockCandidates == <<"L21_V001", "L21_V002">>
MockTemporalData(query, limit) ==
    LET sentences == Sentences(query)
        mock_results == <<[video_id |-> MockVideo, frames |-> MockFrames,
                           score |-> MockScore]>>
    IN  [raised |-> FALSE,
         sentences |-> IF sentences = <<>> THEN <<query>> ELSE sentences,
         per_sentence |-> <<>>,
         candidate_videos |-> MockCandidates,
         results |-> Prefix(mock_results, limit)]

\* the model the engine is called with
model_type_str(model_type) ==
    IF model_type = "beit3" THEN "beit3"
    ELSE IF model_type = "clip" THEN "clip"
    ELSE IF model_type = "longclip" THEN "longclip"
    ELSE "clip"

\* the conversion of the engine's dictionary to TemporalData: a key the
\* dictionary lacks is a KeyError
ToTemporalData(result_dict) ==
    IF \E n \in 1..Len(result_dict.results) :
           "video_id" \notin DOMAIN result_dict.results[n]
        THEN Raise("KeyError")
    ELSE IF "per_sentence" \notin DOMAIN result_dict THEN Raise("KeyError")
    ELSE IF "candidate_videos" \notin DOMAIN result_dict THEN Raise("KeyError")
    ELSE [raised |-> FALSE,
          sentences |-> result_dict.sentences,
          per_sentence |-> result_dict.per_sentence,
          candidate_videos |-> result_dict.candidate_videos,
          results |-> [n \in 1..Len(result_dict.results) |->
                          [video_id |-> result_dict.results[n].video_id,
                           frames |-> result_dict.results[n].frames,
                           score |-> result_dict.results[n].score]]]

\* TemporalService.temporal_search; engine: whether _ensure_faiss_engine_loaded
\* left an engine
temporal_search(engine, query, model_type, limit, topk_per_sentence, max_candidate_videos, w_min, w_max, rnd) ==
    IF ~engine THEN MockTemporalData(query, limit)
    ELSE LET result_dict == MyFaiss_temporal_search(query, limit,
                                model_type_str(model_type), topk_per_sentence,
                                max_candidate_videos, w_min, w_max, rnd)
         IN  IF result_dict.raised THEN MockTemporalData(query, limit)
             ELSE LET data == ToTemporalData(result_dict)
                  IN  IF data.raised THEN MockTemporalData(query, limit)
                      ELSE data

----------------------------------------------------------------------------
(* The services behind the API                                              *)
\* what constructing the engine meets: the directories are missing, MyFaiss
\* raises, the import fails, or the engine is built
LoadOutcomes == {"ok", "no_dirs", "init_fails", "import_fails"}

\* SearchService._ensure_models_loaded
_ensure_models_loaded(load) ==
    IF models_loaded THEN [engine |-> faiss_engine, loaded |-> TRUE]
    ELSE IF load = "import_fails" THEN [engine |-> faiss_engine, loaded |-> FALSE]
    ELSE IF load = "no_dirs" THEN [engine |-> FALSE, loaded |-> TRUE]
    ELSE IF load = "init_fails" THEN [engine |-> FALSE, loaded |-> TRUE]
    ELSE [engine |-> TRUE, loaded |-> TRUE]

\* TemporalService._ensure_faiss_engine_loaded: FALSE when it raises
_ensure_faiss_engine_loaded(load) ==
    IF temporal_engine THEN TRUE ELSE load = "ok"

\* the outcomes that matter to a call
SearchLoads == IF models_loaded THEN {"ok"} ELSE LoadOutcomes
TemporalLoads == IF temporal_engine THEN {"ok"} ELSE {"ok", "init_fails"}

Limits == 1..MaxK
Queries == 0..2                                  \* the texts of text_search
ImageSources == {0, 3, BadSource}                \* uploaded images
ImageIds ==
    {<<m, i>> : m \in {"clip"}, i \in 0..NTotal("clip")} \cup
    {<<"mock_neighbor", NotANumber>>}
\* the random vectors a text_search call can draw
TextDraws(m) ==
    IF m \in {"beit3", "all"} /\ ~beit3_model THEN RandomAngles ELSE {0}

ServiceWorlds ==
    {<<mp, SmallFeats, b>> : mp \in {FullMap, GapMap, DupMap}, b \in BOOLEAN}

InitService ==
    /\ \E w \in ServiceWorlds : id2img = w[1] /\ feats = w[2] /\ beit3_model = w[3]
    /\ faiss_engine = FALSE
    /\ models_loaded = FALSE
    /\ temporal_engine = FALSE
    /\ req = NoRequest
    /\ resp = NoResponse
    /\ InitIndexer
    /\ InitLoading

TextSearch ==
    /\ req = NoRequest
    /\ \E query \in Queries, model_type \in ModelTypes, limit \in Limits,
          load \in SearchLoads :
       \E rnd \in TextDraws(model_type) :
       LET e == _ensure_models_loaded(load)
       IN  /\ faiss_engine' = e.engine
           /\ models_loaded' = e.loaded
           /\ req' = [op |-> "text_search", query |-> query,
                      model_type |-> model_type, limit |-> limit, rnd |-> rnd]
           /\ resp' = text_search(e.engine, query, model_type, limit, rnd)
           /\ UNCHANGED <<loading, indexes, disk, hdf5, id2img, feats, beit3_model, temporal_engine>>

ImageSearch ==
    /\ req = NoRequest
    /\ \E image_source \in ImageSources, model_type \in ModelTypes,
          limit \in Limits, load \in SearchLoads :
       LET e == _ensure_models_loaded(load)
       IN  /\ faiss_engine' = e.engine
           /\ models_loaded' = e.loaded
           /\ req' = [op |-> "image_search", image_source |-> image_source,
                      model_type |-> model_type, limit |-> limit]
           /\ resp' = image_search(e.engine, image_source, model_type, limit)
           /\ UNCHANGED <<loading, indexes, disk, hdf5, id2img, feats, beit3_model, temporal_engine>>

NeighborSearch ==
    /\ req = NoRequest
    /\ \E image_id \in ImageIds, model_type \in ModelTypes,
          limit \in Limits, load \in SearchLoads :
       LET e == _ensure_models_loaded(load)
       IN  /\ faiss_engine' = e.engine
           /\ models_loaded' = e.loaded
           /\ req' = [op |-> "neighbor_search", image_id |-> image_id,
                      model_type |-> model_type, limit |-> limit]
           /\ resp' = neighbor_search(e.engine, image_id, model_type, limit)
           /\ UNCHANGED <<loading, indexes, disk, hdf5, id2img, feats, beit3_model, temporal_engine>>

VisualSearch ==
    /\ req = NoRequest
    /\ \E limit \in Limits, load \in SearchLoads :
       LET e == _ensure_models_loaded(load)
       IN  /\ faiss_engine' = e.engine
           /\ models_loaded' = e.loaded
           /\ req' = [op |-> "visual_search", limit |-> limit]
           /\ resp' = visual_search(limit)
           /\ UNCHANGED <<loading, indexes, disk, hdf5, id2img, feats, beit3_model, temporal_engine>>

\* the requests TemporalSearchRequest admits
TemporalSizes == {<<limit, 6, 3>> : limit \in Limits}
TemporalGaps(text) ==
    IF Len(Sentences(text)) < 2 THEN {<<1, NoneArg>>}
    ELSE {<<1, NoneArg>>, <<1, 1>>}

TemporalSearch ==
    /\ req = NoRequest
    /\ \E query \in Texts, model_type \in ModelTypes, load \in TemporalLoads :
       \E sz \in TemporalSizes, gap \in TemporalGaps(query),
          rnd \in Draws(model_type, Len(query)) :
       LET engine == _ensure_faiss_engine_loaded(load)
       IN  /\ temporal_engine' = engine
           /\ req' = [op |-> "TemporalService.temporal_search", text |-> query,
                      model_type |-> model_type, limit |-> sz[1],
                      topk_per_sentence |-> sz[2],
                      max_candidate_videos |-> sz[3],
                      w_min |-> gap[1], w_max |-> gap[2], rnd |-> rnd]
           /\ resp' = temporal_search(engine, query, model_type, sz[1], sz[2],
                                      sz[3], gap[1], gap[2], rnd)
           /\ UNCHANGED <<loading, indexes, disk, hdf5, id2img, feats, beit3_model, faiss_engine,
                          models_loaded>>

\* SearchService.cleanup
SearchCleanup ==
    /\ req = NoRequest
    /\ faiss_engine' = FALSE
    /\ models_loaded' = FALSE
    /\ UNCHANGED <<loading, indexes, disk, hdf5, id2img, feats, beit3_model, temporal_engine, req, resp>>

\* TemporalService.cleanup
TemporalCleanup ==
    /\ req = NoRequest
    /\ temporal_engine' = FALSE
    /\ UNCHANGED <<loading, indexes, disk, hdf5, id2img, feats, beit3_model, faiss_engine, models_loaded,
                   req, resp>>

Next ==
    \/ TextSearch
    \/ ImageSearch
    \/ NeighborSearch
    \/ VisualSearch
    \/ TemporalSearch
    \/ SearchCleanup
    \/ TemporalCleanup
    \/ Return

Spec == InitService /\ [][Next]_vars

----------------------------------------------------------------------------
(* Properties of the services                                               *)
SearchOps == {"text_search", "image_search", "neighbor_search"}
IsSearch == req.op \in SearchOps
IsTemporalService == req.op = "TemporalService.temporal_search"
IsMultiModel == IsSearch /\ req.model_type = "all"
IsSingleModel == IsSearch /\ req.model_type # "all"
\* the paths the index ids map to
AssetPaths == {id2img[i] : i \in DOMAIN id2img}
Links(results) == {results[i].link : i \in 1..Len(results)}

\* all_results of the multi-model call being answered
AllResults ==
    CASE req.op = "text_search" ->
             TextHitsAllModels(req.query, req.limit, req.rnd)
      [] req.op = "image_search" ->
             ImageHitsAllModels(req.limit, NoneArg, req.image_source)
      [] req.op = "neighbor_search" ->
             ImageHitsAllModels(req.limit, numeric_id(req.image_id), NoneArg)

\* C3: the list a multi-model search (model ALL, limit k >= 1) returns has
\* at most k hits and no two hits with the same link, and every hit it
\* retains has the highest score among the hits the models returned for
\* its link
C3_FusionHighestWins ==
    IsMultiModel =>
        /\ Len(resp.results) <= req.limit
        /\ Cardinality(Links(resp.results)) = Len(resp.results)
        /\ faiss_engine =>
               \A i \in 1..Len(resp.results) :
                   /\ resp.results[i] \in Range(AllResults)
                   /\ \A h \in Range(AllResults) :
                          h.link = resp.results[i].link =>
                              h.score <= resp.results[i].score

\* two models returned the same link with different scores and the link is
\* among the results
C3_Witness ==
    /\ IsMultiModel
    /\ faiss_engine
    /\ \E g, h \in Range(AllResults) :
           /\ g.link = h.link
           /\ g.score < h.score
           /\ g.link \in Links(resp.results)

\* C4: every list a single-model text_search, image_search or
\* neighbor_search with limit k returns has at most k hits, is sorted by
\* non-increasing score and has no two hits with the same link
C4_SingleModelListWellFormed ==
    IsSingleModel =>
        /\ Len(resp.results) <= req.limit
        /\ \A i \in 1..(Len(resp.results) - 1) :
               resp.results[i].score >= resp.results[i + 1].score
        /\ Cardinality(Links(resp.results)) = Len(resp.results)

\* the engine call a single-model request makes
EngineCall ==
    CASE req.op = "text_search" ->
             MyFaiss_text_search(req.query, req.limit, req.model_type, req.rnd)
      [] req.op = "image_search" ->
             MyFaiss_image_search(req.limit, req.model_type, NoneArg,
                                  req.image_source)
      [] req.op = "neighbor_search" ->
             MyFaiss_image_search(req.limit, req.model_type,
                                  numeric_id(req.image_id), NoneArg)

\* C5: when the engine cannot be loaded or an engine call raises,
\* text_search, image_search, neighbor_search and temporal_search surface an
\* error; no hit and no temporal result is returned that an index search
\* did not yield
C5_NoSynthesizedResults ==
    /\ IsSearch =>
           /\ ~faiss_engine => resp.raised
           /\ (faiss_engine /\ req.model_type # "all" /\ EngineCall.raised)
                  => resp.raised
           /\ ~resp.raised => Links(resp.results) \subseteq AssetPaths
    /\ IsTemporalService =>
           /\ ~temporal_engine => resp.raised
           /\ ~resp.raised =>
                  \A n \in 1..Len(resp.results) :
                      resp.results[n].video_id
                          \in {VideoOf(p) : p \in AssetPaths}

\* the model the request names is not loaded, or the operation has no
\* support for it
ModelUnavailable ==
    IF req.op \in {"text_search", "TemporalService.temporal_search"}
        THEN \/ req.model_type = "clip2video"
             \/ req.model_type = "beit3" /\ ~beit3_model
        ELSE req.model_type \in {"clip2video", "beit3"}

\* C6: a request naming a model that is not loaded or that the operation
\* does not support fails with an error; it is not answered with another
\* model's encoder or index, nor with a random query vector
C6_UnavailableModelFails ==
    (/\ IsSearch \/ IsTemporalService
     /\ IsSearch => faiss_engine
     /\ IsTemporalService => temporal_engine
     /\ ModelUnavailable) => resp.raised

\* C8: for a query of exactly one sentence the response of
\* TemporalService.temporal_search is the single-sentence branch's output:
\* the text_search hits reduced to one per video, with the query's
\* sentences and the candidate videos of that search
C8_SingleSentenceResponse ==
    (/\ IsTemporalService
     /\ temporal_engine
     /\ req.model_type \in {"clip", "longclip"}
     /\ Len(Sentences(req.text)) = 1) =>
        LET r == MyFaiss_text_search(Sentences(req.text)[1], req.limit,
                                     req.model_type, req.rnd[1])
            out == OnePerUnit(r.scores, r.paths, 1, <<>>, req.limit)
        IN  /\ ~resp.raised
            /\ resp.sentences = Sentences(req.text)
            /\ Range(resp.candidate_videos) = {o.unit_id : o \in Range(out)}
            /\ Len(resp.results) = Len(out)
            /\ \A n \in 1..Len(out) :
                   /\ resp.results[n].video_id = out[n].unit_id
                   /\ resp.results[n].score = out[n].score

\* C10: every hit a single-model text_search, image_search or
\* neighbor_search returns has a score at or above the model's floor: 0.20
\* for CLIP, 0.40 for BEiT-3, 1.0 for the other models
C10_ScoresAboveFloor ==
    IsSingleModel =>
        \A i \in 1..Len(resp.results) :
            resp.results[i].score >= similarity_threshold(req.model_type)

----------------------------------------------------------------------------
(* Further properties of MyFaiss.temporal_search                            *)
\* the answer of the same call when np.random.randn draws rnd
Replay(rnd) ==
    MyFaiss_temporal_search(req.text, req.k, req.model_type,
                            req.topk_per_sentence, req.max_candidate_videos,
                            req.w_min, req.w_max, rnd)

\* C11: two temporal_search calls with the same arguments on the same
\* indexes return the same results in the same order, whatever the model:
\* the answer does not depend on anything the call draws
C11_Deterministic ==
    IsTemporal =>
        \A rnd \in Draws(req.model_type, Len(req.text)) : Replay(rnd) = resp

----------------------------------------------------------------------------
(* Further properties of the services                                       *)
\* the score of a vector with itself, units of 1/10
SelfScore == 10

\* C12: for every model with an index and every id below the index size, a
\* neighbor_search with k >= 1 returns a list whose first hit is the probe
\* id itself, with the self-match score
C12_NeighborSelfMatch ==
    (/\ req.op = "neighbor_search"
     /\ faiss_engine
     /\ req.model_type \in {"clip", "longclip", "beit3"}
     /\ numeric_id(req.image_id) \in 0..(NTotal(req.model_type) - 1)) =>
        /\ ~resp.raised
        /\ Len(resp.results) >= 1
        /\ resp.results[1].image_id =
               <<req.model_type, numeric_id(req.image_id)>>
        /\ resp.results[1].score = SelfScore

\* the models MyFaiss reads an index for
IndexedModels == {"clip", "longclip", "beit3"}

\* C13: a loaded engine has compared every index size with the number of
\* entries of the id-to-asset map: where they differ loading has failed and
\* no service holds an engine
C13_SizesCheckedAtLoad ==
    (faiss_engine \/ temporal_engine) =>
        \A m \in IndexedModels : NTotal(m) = Cardinality(DOMAIN id2img)

\* the engine call a multi-model request makes for model m
EngineCallFor(m) ==
    CASE req.op = "text_search" ->
             MyFaiss_text_search(req.query, req.limit, m, req.rnd)
      [] req.op = "image_search" ->
             MyFaiss_image_search(req.limit, m, NoneArg, req.image_source)
      [] req.op = "neighbor_search" ->
             MyFaiss_image_search(req.limit, m, numeric_id(req.image_id),
                                  NoneArg)

\* the models whose search raised, and the links the other models returned
RaisedModels == {m \in SupportedModels : EngineCallFor(m).raised}
SurvivingLinks ==
    UNION {Range(EngineCallFor(m).paths) : m \in SupportedModels \ RaisedModels}

\* C14: in a multi-model search a model whose search raises contributes no
\* hit; the hits of the remaining models are fused and returned (every link
\* they returned, unless the limit cuts the list) and the request does not
\* fail
C14_ModelFailuresIsolated ==
    (IsMultiModel /\ faiss_engine) =>
        /\ ~resp.raised
        /\ Links(resp.results) \subseteq SurvivingLinks
        /\ Len(resp.results) = Min(req.limit, Cardinality(SurvivingLinks))

\* one model raised, another raised nothing, and hits came back
C14_Witness ==
    /\ IsMultiModel
    /\ faiss_engine
    /\ RaisedModels # {}
    /\ RaisedModels # SupportedModels
    /\ Len(resp.results) >= 1

\* hit h is what model m's search returned at some rank
ReturnedBy(m, h) ==
    LET r == EngineCallFor(m)
    IN  /\ ~r.raised
        /\ \E i \in 1..Min(Len(r.scores), Len(r.paths)) :
               /\ h.image_id[2] = r.idxs[i]
               /\ h.score = r.scores[i]
               /\ h.link = r.paths[i]

\* C15: every hit of a multi-model result carries the identity of the model
\* whose index search produced it: the model named by the prefix of its
\* image_id returned that hit
C15_HitNamesItsModel ==
    (IsMultiModel /\ faiss_engine) =>
        \A i \in 1..Len(resp.results) :
            /\ resp.results[i].image_id[1] \in SupportedModels
            /\ ReturnedBy(resp.results[i].image_id[1], resp.results[i])

----------------------------------------------------------------------------
(* Order of the temporal results                                            *)
\* the videos in ascending order of their ids
VideoOrder == <<"L01_V001", "L01_V002", "L02_V001">>
VideoRank(v) == CHOOSE i \in 1..Len(VideoOrder) : VideoOrder[i] = v

\* C16: of two temporal results with equal score the one with the smaller
\* video_id comes first, whatever the order the candidates were admitted in
C16_TiesByVideoId ==
    Aligned =>
        \A a, b \in 1..Len(resp.results) :
            (a < b /\ resp.results[a].score = resp.results[b].score) =>
                VideoRank(resp.results[a].video_id)
                    < VideoRank(resp.results[b].video_id)

\* C17: a temporal_search with k = 0 on a text of at least one sentence (and
\* the text_search of its single-sentence branch) returns an empty result
\* list without having searched an index: no hit is ranked for any sentence
C17_ZeroKReturnsNothing ==
    (IsTemporal /\ req.k = 0 /\ Len(Sentences(req.text)) >= 1) =>
        /\ ~resp.raised
        /\ resp.results = <<>>
        /\ "per_sentence" \in DOMAIN resp =>
               \A i \in 1..Len(resp.per_sentence) : resp.per_sentence[i] = <<>>

(***************************************************************************)
(* FAISSIndex (backend/indexer/faiss_index.py)                             *)
(*                                                                         *)
(* A feature row is a direction (one of the six unit directions) and a     *)
(* length; faiss.normalize_L2 brings the length to 1.  Only the flat       *)
(* inner-product index is modelled; any other index_type stands for the    *)
(* unsupported one.  Metadata is a dict from str(i) to a dict of str and   *)
(* int values, as the index builders produce it.                           *)
(***************************************************************************)
MaxVectors == 3     \* rows of a feature matrix handed to build_index
FeatureDim == 2     \* features.shape[1] of the matrices built from

Row(angle, len) == [angle |-> angle, len |-> len]
normalize_L2(rows) == [i \in DOMAIN rows |-> Row(rows[i].angle, 1)]

\* the feature matrix of n rows and the metadata list of n entries
FeatureRows == <<Row(0, 2), Row(2, 1), Row(0, 3), Row(4, 1)>>
Features(n) == [shape |-> <<n, FeatureDim>>, rows |-> Prefix(FeatureRows, n)]
Meta(i) ==
    [video_id |-> "L01_V001", frame_id |-> ToString(i), shot_id |-> 0,
     global_index |-> i]
MetadataList(n) == [i \in 1..n |-> Meta(i - 1)]

\* the fields of the faiss index; supplied remembers, for each vector held,
\* the metadata entry that was handed over with it
NotSupplied == [supplied |-> FALSE]
FlatIndex(d, vecs, supplied) ==
    [d |-> d, vecs |-> vecs, built |-> TRUE, supplied |-> supplied]
ntotal(index) == Len(index.vecs)

\* json.dump / json.load of the metadata: object members keyed by strings,
\* every value written as a string or a number literal
StringFields == {"video_id", "frame_id"}
JsonValue(f, v) ==
    IF f \in StringFields THEN [type |-> "string", text |-> v]
    ELSE [type |-> "number", text |-> ToString(v)]
JsonObject(meta) == {[name |-> f, value |-> JsonValue(f, meta[f])] : f \in DOMAIN meta}
json_dump(metadata) ==
    [exists |-> TRUE,
     members |-> {[name |-> key, value |-> JsonObject(metadata[key])] :
                    key \in DOMAIN metadata}]
\* the int a number literal denotes
ParseInt(text) == CHOOSE n \in -1..(MaxVectors + 1) : ToString(n) = text
ParseValue(v) == IF v.type = "string" THEN v.text ELSE ParseInt(v.text)
ParseObject(obj) ==
    [f \in {mem.name : mem \in obj} |->
        ParseValue((CHOOSE mem \in obj : mem.name = f).value)]
json_load(file) ==
    [key \in {mem.name : mem \in file.members} |->
        ParseObject((CHOOSE mem \in file.members : mem.name = key).value)]

\* the outcome of a method: the object after it, the disk after it, and
\* what the caller sees
Outcome(self, d, out) == [self |-> self, disk |-> d, out |-> out]
Done == [raised |-> FALSE]

IndexTypes == {"flat", "hnsw"}

build_index(self, d, features, metadata, index_type) ==
    IF features.shape[1] * features.shape[2] = 0
    THEN Outcome(self, d, Raise("ValueError"))
    ELSE LET dim == [self EXCEPT !.feature_dim = features.shape[2]]
         IN  IF index_type # "flat"
             THEN Outcome(dim, d, Raise("ValueError"))
             ELSE Outcome(
                    [dim EXCEPT
                       !.index = FlatIndex(features.shape[2],
                                           normalize_L2(features.rows),
                                           [i \in DOMAIN features.rows |->
                                              IF i \in DOMAIN metadata
                                              THEN metadata[i] ELSE NotSupplied]),
                       !.is_trained = TRUE,
                       !.metadata = [key \in {ToString(i - 1) : i \in DOMAIN metadata} |->
                                        metadata[(CHOOSE i \in DOMAIN metadata :
                                                     ToString(i - 1) = key)]]],
                    d, Done)

\* a path argument: a given path or None (the object holds no default path)
IndexPath == "faiss.bin"
MetadataPath == "metadata.json"
PathArgs == {<<IndexPath, MetadataPath>>, <<"", MetadataPath>>, <<IndexPath, "">>}

save_index(self, d, index_path, metadata_path) ==
    IF ~self.index.built THEN Outcome(self, d, Raise("RuntimeError"))
    ELSE IF index_path = "" \/ metadata_path = ""
    THEN Outcome(self, d, Raise("ValueError"))
    ELSE Outcome(self,
                 [index_file |-> [exists |-> TRUE, index |-> self.index],
                  metadata_file |-> json_dump(self.metadata)],
                 Done)

load_index_KeepTrained(self, d, index_path, metadata_path) ==
    IF index_path = "" \/ metadata_path = ""
    THEN Outcome(self, d, Raise("ValueError"))
    ELSE IF ~d.index_file.exists
    THEN Outcome(self, d, Raise("FileNotFoundError"))
    ELSE IF ~d.metadata_file.exists
    THEN Outcome(self, d, Raise("FileNotFoundError"))
    ELSE Outcome([self EXCEPT !.index = d.index_file.index,
                              !.feature_dim = d.index_file.index.d,
                              !.metadata = json_load(d.metadata_file)],
                 d, Done)

load_index(self, d, index_path, metadata_path) ==
    IF index_path = "" \/ metadata_path = ""
    THEN Outcome(self, d, Raise("ValueError"))
    ELSE IF ~d.index_file.exists
    THEN Outcome(self, d, Raise("FileNotFoundError"))
    ELSE IF ~d.metadata_file.exists
    THEN Outcome(self, d, Raise("FileNotFoundError"))
    ELSE Outcome([self EXCEPT !.index = d.index_file.index,
                              !.feature_dim = d.index_file.index.d,
                              !.is_trained = TRUE,
                              !.metadata = json_load(d.metadata_file)],
                 d, Done)


\* the entry search returns for an id that has no metadata
MissingMetadata(idx) == [error |-> idx]

\* index.search of the flat index: kk ids by descending inner product
FlatSearch(index, q, kk) ==
    LET sc == Tabulate([i \in 0..(ntotal(index) - 1) |->
                           Dot(q, index.vecs[i + 1].angle)])
        idxs == IndexRank(sc, DOMAIN sc, kk)
    IN  [idxs   |-> idxs,
         scores |-> Tabulate([i \in 1..kk |-> IF idxs[i] = -1 THEN NegInfScore
                                              ELSE sc[idxs[i]]])]

search_NoMin(self, query_features, k, return_metadata) ==
    IF ~self.index.built THEN Raise("RuntimeError")
    ELSE IF ~self.is_trained THEN Raise("RuntimeError")
    ELSE LET q == normalize_L2(<<query_features>>)[1]
             found == FlatSearch(self.index, q.angle, k)
         IN  [raised |-> FALSE,
              scores |-> found.scores,
              indices |-> found.idxs,
              metadata |->
                 IF return_metadata
                 THEN [i \in 1..Len(found.idxs) |->
                         IF ToString(found.idxs[i]) \in DOMAIN self.metadata
                         THEN self.metadata[ToString(found.idxs[i])]
                         ELSE MissingMetadata(found.idxs[i])]
                 ELSE <<>>]

search(self, query_features, k, return_metadata) ==
    IF ~self.index.built THEN Raise("RuntimeError")
    ELSE IF ~self.is_trained THEN Raise("RuntimeError")
    ELSE LET q == normalize_L2(<<query_features>>)[1]
             found == FlatSearch(self.index, q.angle, Min(k, ntotal(self.index)))
         IN  [raised |-> FALSE,
              scores |-> found.scores,
              indices |-> found.idxs,
              metadata |->
                 IF return_metadata
                 THEN [i \in 1..Len(found.idxs) |->
                         IF ToString(found.idxs[i]) \in DOMAIN self.metadata
                         THEN self.metadata[ToString(found.idxs[i])]
                         ELSE MissingMetadata(found.idxs[i])]
                 ELSE <<>>]

----------------------------------------------------------------------------
(* Building, saving, loading and searching: one object is built and saved, *)
(* the other is loaded from what was saved (test_faiss_index_save_load,    *)
(* FAISSIndexBuilder.validate_index)                                       *)
serviceVars == <<id2img, feats, beit3_model, faiss_engine, models_loaded, temporal_engine, loading>>

\* metadata lists have one entry per feature row, or lack the last one
MetadataLengths(n) == {n, Max(n - 1, 0)}
Queries2 == {Row(0, 2), Row(3, 1)}
SearchKs == 1..(MaxVectors + 1)

BuildIndex ==
    /\ req = NoRequest
    /\ \E n \in 0..MaxVectors, index_type \in IndexTypes :
         \E nm \in MetadataLengths(n) :
            LET r == build_index(indexes["faiss_index"], disk, Features(n),
                                 MetadataList(nm), index_type)
            IN  /\ indexes' = [indexes EXCEPT !["faiss_index"] = r.self]
                /\ req' = [op |-> "build_index", obj |-> "faiss_index",
                           features |-> n, metadata |-> nm,
                           index_type |-> index_type]
                /\ resp' = r.out
    /\ UNCHANGED <<disk, hdf5, serviceVars>>

SaveIndex ==
    /\ req = NoRequest
    /\ \E paths \in PathArgs :
         LET r == save_index(indexes["faiss_index"], disk, paths[1], paths[2])
         IN  /\ disk' = r.disk
             /\ req' = [op |-> "save_index", obj |-> "faiss_index",
                        paths |-> paths]
             /\ resp' = r.out
    /\ UNCHANGED <<indexes, hdf5, serviceVars>>

LoadIndex ==
    /\ req = NoRequest
    /\ \E paths \in PathArgs :
         LET r == load_index(indexes["loaded_index"], disk, paths[1], paths[2])
         IN  /\ indexes' = [indexes EXCEPT !["loaded_index"] = r.self]
             /\ req' = [op |-> "load_index", obj |-> "loaded_index",
                        paths |-> paths]
             /\ resp' = r.out
    /\ UNCHANGED <<disk, hdf5, serviceVars>>

Search ==
    /\ req = NoRequest
    /\ \E o \in IndexObjects, q \in Queries2, k \in SearchKs,
          return_metadata \in BOOLEAN :
         /\ req' = [op |-> "search", obj |-> o, query |-> q, k |-> k,
                    return_metadata |-> return_metadata]
         /\ resp' = search(indexes[o], q, k, return_metadata)
    /\ UNCHANGED <<indexes, disk, hdf5, serviceVars>>

NextFaissIndex == BuildIndex \/ SaveIndex \/ LoadIndex \/ Search \/ Return

\* the index scripts run on their own: no search service is started
InitFaissIndex ==
    /\ id2img = FullMap
    /\ feats = SmallFeats
    /\ beit3_model = TRUE
    /\ faiss_engine = FALSE
    /\ models_loaded = FALSE
    /\ temporal_engine = FALSE
    /\ req = NoRequest
    /\ resp = NoResponse
    /\ InitIndexer
    /\ InitLoading

SpecFaissIndex == InitFaissIndex /\ [][NextFaissIndex]_vars

----------------------------------------------------------------------------
(* Properties of FAISSIndex                                                *)
IsBuilt(self) == self.index.built /\ self.is_trained

\* what save_index of an object, then load_index on a fresh object, gives
Saved(self) == save_index(self, disk, IndexPath, MetadataPath)
Reloaded(self) == load_index(FreshIndex, Saved(self).disk, IndexPath, MetadataPath)

\* C18: an index that build_index built, saved with save_index(p, m) and
\* loaded with load_index(p, m) on a fresh FAISSIndex, comes back with the
\* same ntotal, the same feature_dim and the same metadata entries, with
\* is_trained true, and search(query, k) on it succeeds.
C18_SaveLoadRoundTrip ==
    \A o \in IndexObjects :
        IsBuilt(indexes[o]) =>
            /\ ~Saved(indexes[o]).out.raised
            /\ ~Reloaded(indexes[o]).out.raised
            /\ LET loaded == Reloaded(indexes[o]).self
               IN  /\ ntotal(loaded.index) = ntotal(indexes[o].index)
                   /\ loaded.feature_dim = indexes[o].feature_dim
                   /\ loaded.metadata = indexes[o].metadata
                   /\ loaded.is_trained
                   /\ \A q \in Queries2, k \in SearchKs :
                        ~search(loaded, q, k, TRUE).raised

\* load_index has just loaded, into the fresh object, a saved index of
\* several vectors with their metadata
C18_Witness ==
    /\ req.op = "load_index"
    /\ ~resp.raised
    /\ IsBuilt(indexes["faiss_index"])
    /\ indexes["loaded_index"] = Reloaded(indexes["faiss_index"]).self
    /\ ntotal(indexes["loaded_index"].index) >= 2
    /\ DOMAIN indexes["loaded_index"].metadata # {}

\* an index that build_index built or load_index loaded
Searchable == {o \in IndexObjects : IsBuilt(indexes[o])}

\* C19: search(query, k) on a built or loaded index returns exactly
\* min(k, ntotal) scores, exactly as many indices and, with
\* return_metadata, exactly as many metadata entries.
C19_SearchReturnsMinKNtotal ==
    (req.op = "search" /\ req.obj \in Searchable) =>
        /\ ~resp.raised
        /\ Len(resp.scores) = Min(req.k, ntotal(indexes[req.obj].index))
        /\ Len(resp.indices) = Len(resp.scores)
        /\ req.return_metadata => Len(resp.metadata) = Len(resp.scores)

\* a search for more neighbours than the loaded index holds, one of them
\* without metadata
C19_Witness ==
    /\ req.op = "search"
    /\ req.obj = "loaded_index"
    /\ req.obj \in Searchable
    /\ req.return_metadata
    /\ ~resp.raised
    /\ req.k > ntotal(indexes[req.obj].index)
    /\ Len(resp.scores) = ntotal(indexes[req.obj].index)
    /\ Len(resp.scores) >= 2
    /\ \E i \in 1..Len(resp.metadata) : "error" \in DOMAIN resp.metadata[i]

(***************************************************************************)
(* HDF5Storage (backend/indexer/hdf5_storage.py)                           *)
(*                                                                         *)
(* hdf5.file is the file at file_path: whether it exists, the schema it    *)
(* holds, and which rows were written.  hdf5.handles counts the open       *)
(* h5py.File handles on it; hdf5._file is the object's handle: "None",     *)
(* "open" or "closed".  Dataset values are not modelled, only which rows   *)
(* of the feature and metadata datasets were written.                      *)
(***************************************************************************)
EmptyFile == [exists |-> TRUE, schema |-> FALSE]
SchemaFile(num_frames, feature_dims) ==
    [exists |-> TRUE, schema |-> TRUE, num_frames |-> num_frames,
     feature_dims |-> feature_dims, features |-> {}, meta |-> {}]

\* h5py.File(file_path, "w") on a file that a handle of this process holds
\* open: h5py refuses to truncate it; a build that does not notice the open
\* handle truncates the file
ReopenOutcomes == {"OSError", "truncated"}

\* h5py.File(file_path, mode): the file and the handle count after it
h5py_File(st, mode, reopen) ==
    IF mode = "w"
    THEN IF st.handles > 0 /\ reopen = "OSError"
         THEN [raised |-> TRUE, file |-> st.file, handles |-> st.handles]
         ELSE [raised |-> FALSE, file |-> EmptyFile, handles |-> st.handles + 1]
    ELSE [raised |-> FALSE,
          file |-> IF st.file.exists THEN st.file ELSE EmptyFile,
          handles |-> st.handles + 1]

\* HDF5Storage.__init__; the object it replaces is dropped and its handle,
\* if open, is closed with it
HDF5Storage(st, mode) ==
    [made |-> TRUE, origin |-> "HDF5Storage", mode |-> mode, _file |-> "None",
     in_block |-> FALSE, handles |-> 0, file |-> st.file]

StorageOutcome(st, out) == [self |-> st, out |-> out]

\* what a method does before it touches the file
NotOpen(st) == st._file # "open"
NotOpenError(st) ==
    IF st._file = "None" THEN Raise("RuntimeError") ELSE Raise("ValueError")

create_schema(st, num_frames, feature_dims) ==
    IF NotOpen(st) THEN StorageOutcome(st, NotOpenError(st))
    ELSE IF st.file.schema THEN StorageOutcome(st, Raise("ValueError"))
    ELSE StorageOutcome([st EXCEPT !.file = SchemaFile(num_frames, feature_dims)],
                        Done)

\* the storage it replaces is still held while the file is opened, and is
\* dropped, its handle closed, once the new storage is returned
create_hdf5_file(st, num_frames, feature_dims, reopen) ==
    LET storage == [HDF5Storage(st, "w") EXCEPT !.handles = st.handles]
        opened == h5py_File(storage, "w", reopen)
        made == [storage EXCEPT !.origin = "create_hdf5_file",
                                !._file = "open",
                                !.file = opened.file,
                                !.handles = 1]
    IN  IF opened.raised THEN StorageOutcome(st, Raise("OSError"))
        ELSE create_schema(made, num_frames, feature_dims)

\* __enter__: the new handle is opened while the object's old one is held,
\* then replaces it
StorageEnter(st, reopen) ==
    LET opened == h5py_File(st, st.mode, reopen)
    IN  IF opened.raised THEN StorageOutcome(st, Raise("OSError"))
        ELSE StorageOutcome(
               [st EXCEPT !._file = "open",
                          !.file = opened.file,
                          !.handles = IF st._file = "open" THEN opened.handles - 1
                                      ELSE opened.handles,
                          !.in_block = TRUE],
               Done)

\* __exit__
StorageExit(st) ==
    IF st._file = "open"
    THEN [st EXCEPT !._file = "closed", !.handles = st.handles - 1,
                    !.in_block = FALSE]
    ELSE [st EXCEPT !.in_block = FALSE]

\* dset[frame_start : frame_start + count] = array of count rows: the slice
\* is cut at the dataset's end and the array must fill it exactly
SliceFits(st, frame_start, count) == frame_start + count <= st.file.num_frames
RowsOf(frame_start, count) == frame_start..(frame_start + count - 1)

store_features(st, frame_start, models, count) ==
    IF NotOpen(st) THEN StorageOutcome(st, NotOpenError(st))
    ELSE IF ~st.file.schema THEN StorageOutcome(st, Raise("KeyError"))
    ELSE IF models \cap DOMAIN st.file.feature_dims = {}
    THEN StorageOutcome(st, Done)
    ELSE IF ~SliceFits(st, frame_start, count)
    THEN StorageOutcome(st, Raise("TypeError"))
    ELSE StorageOutcome(
           [st EXCEPT !.file.features = @ \cup RowsOf(frame_start, count)], Done)

store_metadata(st, frame_start, count) ==
    IF NotOpen(st) THEN StorageOutcome(st, NotOpenError(st))
    ELSE IF ~st.file.schema THEN StorageOutcome(st, Raise("KeyError"))
    ELSE IF ~SliceFits(st, frame_start, count)
    THEN StorageOutcome(st, Raise("TypeError"))
    ELSE StorageOutcome(
           [st EXCEPT !.file.meta = @ \cup RowsOf(frame_start, count)], Done)

get_stats(st) ==
    IF NotOpen(st) THEN NotOpenError(st)
    ELSE IF ~st.file.schema THEN Raise("KeyError")
    ELSE [raised |-> FALSE,
          total_frames |-> st.file.num_frames,
          feature_types |-> DOMAIN st.file.feature_dims,
          total_bboxes |-> 0]

----------------------------------------------------------------------------
(* Creating, entering and filling a storage                                *)
indexVars == <<indexes, disk>>

NumFrames == 1..MaxVectors
FeatureDimsArgs ==
    {[mdl \in names |-> FeatureDim] : names \in {{"clip"}, {"clip", "beit3"}}}
\* the ranges written: the whole file at once, one frame, one row too many
StoreArgs(st) ==
    IF st.file.exists /\ st.file.schema
    THEN {<<0, st.file.num_frames>>, <<0, 1>>, <<st.file.num_frames - 1, 1>>,
          <<1, st.file.num_frames>>}
    ELSE {<<0, 1>>}
ModelArgs == {{"clip"}, {"clip", "beit3"}, {"siglip"}}

CreateHdf5File ==
    /\ req = NoRequest
    /\ \E num_frames \in NumFrames, feature_dims \in FeatureDimsArgs,
          reopen \in ReopenOutcomes :
         LET r == create_hdf5_file(hdf5, num_frames, feature_dims, reopen)
         IN  /\ hdf5' = r.self
             /\ req' = [op |-> "create_hdf5_file", num_frames |-> num_frames,
                        feature_dims |-> feature_dims]
             /\ resp' = r.out
    /\ UNCHANGED <<indexVars, serviceVars>>

NewStorage ==
    /\ req = NoRequest
    /\ \E mode \in {"w", "a"} :
         /\ hdf5' = HDF5Storage(hdf5, mode)
         /\ req' = [op |-> "HDF5Storage", mode |-> mode]
         /\ resp' = Done
    /\ UNCHANGED <<indexVars, serviceVars>>

Enter ==
    /\ req = NoRequest
    /\ hdf5.made
    /\ ~hdf5.in_block
    /\ \E reopen \in ReopenOutcomes :
         LET r == StorageEnter(hdf5, reopen)
         IN  /\ hdf5' = r.self
             /\ req' = [op |-> "__enter__"]
             /\ resp' = r.out
    /\ UNCHANGED <<indexVars, serviceVars>>

Exit ==
    /\ req = NoRequest
    /\ hdf5.in_block
    /\ hdf5' = StorageExit(hdf5)
    /\ req' = [op |-> "__exit__"]
    /\ resp' = Done
    /\ UNCHANGED <<indexVars, serviceVars>>

CreateSchema ==
    /\ req = NoRequest
    /\ hdf5.made
    /\ \E num_frames \in NumFrames, feature_dims \in FeatureDimsArgs :
         LET r == create_schema(hdf5, num_frames, feature_dims)
         IN  /\ hdf5' = r.self
             /\ req' = [op |-> "create_schema", num_frames |-> num_frames,
                        feature_dims |-> feature_dims]
             /\ resp' = r.out
    /\ UNCHANGED <<indexVars, serviceVars>>

StoreFeatures ==
    /\ req = NoRequest
    /\ hdf5.made
    /\ \E a \in StoreArgs(hdf5), models \in ModelArgs :
         LET r == store_features(hdf5, a[1], models, a[2])
         IN  /\ hdf5' = r.self
             /\ req' = [op |-> "store_features", frame_start |-> a[1],
                        models |-> models, count |-> a[2]]
             /\ resp' = r.out
    /\ UNCHANGED <<indexVars, serviceVars>>

StoreMetadata ==
    /\ req = NoRequest
    /\ hdf5.made
    /\ \E a \in StoreArgs(hdf5) :
         LET r == store_metadata(hdf5, a[1], a[2])
         IN  /\ hdf5' = r.self
             /\ req' = [op |-> "store_metadata", frame_start |-> a[1],
                        count |-> a[2]]
             /\ resp' = r.out
    /\ UNCHANGED <<indexVars, serviceVars>>

GetStats ==
    /\ req = NoRequest
    /\ hdf5.made
    /\ req' = [op |-> "get_stats"]
    /\ resp' = get_stats(hdf5)
    /\ UNCHANGED <<hdf5, indexVars, serviceVars>>

NextHdf5Storage ==
    \/ CreateHdf5File \/ NewStorage \/ Enter \/ Exit \/ CreateSchema
    \/ StoreFeatures \/ StoreMetadata \/ GetStats \/ Return

SpecHdf5Storage == InitFaissIndex /\ [][NextHdf5Storage]_vars

----------------------------------------------------------------------------
(* Properties of HDF5Storage                                               *)
\* the storage came from create_hdf5_file(path, n, dims), with the schema
\* written for it
FromCreate == hdf5.made /\ hdf5.origin = "create_hdf5_file"
\* inside `with create_hdf5_file(...) as storage`
InCreatedBlock == FromCreate /\ hdf5.in_block

\* C20: a storage returned by create_hdf5_file(path, n, dims) and entered as
\* a context manager still holds its schema: entering succeeds, inside the
\* block store_features and store_metadata of rows the file has succeed, and
\* get_stats reports total_frames = n and every feature type of dims.
C20_CreatedStorageKeepsSchema ==
    /\ (FromCreate /\ req.op = "__enter__") => ~resp.raised
    /\ InCreatedBlock => hdf5.file.schema
    /\ (InCreatedBlock /\ req.op \in {"store_features", "store_metadata"}
          /\ hdf5.file.schema /\ SliceFits(hdf5, req.frame_start, req.count))
         => ~resp.raised
    /\ (InCreatedBlock /\ req.op = "get_stats") =>
         /\ ~resp.raised
         /\ resp.total_frames = hdf5.file.num_frames
         /\ resp.feature_types = DOMAIN hdf5.file.feature_dims

----------------------------------------------------------------------------
(* Further properties of MyFaiss.temporal_search                           *)
\* the query vectors of the answered call
ReqT == TextFeats(Sentences(req.text), req.model_type, req.rnd)
\* what the loop body of the answered call found for candidate v
ReqVideoResult(v) ==
    VideoResult(ReqT, resp.per_sentence, v, ReqM, req.w_min, req.w_max)
\* the DP tables of candidate v, and the walk from the start frame of argmax
ReqLayers(v) ==
    DPTables(ReqW(v), ReqM, Len(VideoFeatures(v)), req.w_min, req.w_max)
ReqFeasible(v) ==
    FeasiblePaths(Len(VideoFeatures(v)), ReqM, req.w_min, req.w_max) # {}
\* following the pointers from frames[1] never meets -1
SentinelFree(layers, frames) ==
    \A t \in 1..(ReqM - 1) : layers[t].pointer[frames[t]] = frames[t + 1]

\* C21: for M >= 2, a candidate whose features load with at least M rows
\* yields a result exactly when a gap-feasible sequence of M frames exists in
\* it; a reported start frame never has the sentinel -1 in its pointer
\* chain, and when a feasible sequence exists the start frame of argmax has
\* a chain free of the sentinel.
C21_ResultIffFeasible ==
    Aligned =>
        \A v \in Range(resp.candidate_videos) :
            ~Unusable(v) =>
                LET layers == ReqLayers(v)
                    found == ReqVideoResult(v)
                    feasible == ReqFeasible(v)
                IN  /\ found # <<>> <=> feasible
                    /\ found # <<>> => SentinelFree(layers, found[1].frames)
                    /\ feasible =>
                           Backtrack(layers, ReqM, 1, ArgMax(layers[1].score)).feasible
                    /\ (req.k = 0 \/ Len(resp.results) < req.k) =>
                           (v \in ResultVideos <=> feasible)

\* a candidate
\* with a feasible sequence whose table also holds a row pointing at -1,
\* next to a candidate with no feasible sequence that yields nothing
C21_Witness ==
    /\ Aligned
    /\ \E v \in Range(resp.candidate_videos) :
           /\ ~Unusable(v)
           /\ ReqFeasible(v)
           /\ v \in ResultVideos
           /\ \E t \in 1..(ReqM - 1), j \in 0..(Len(VideoFeatures(v)) - 1) :
                  ReqLayers(v)[t].pointer[j] = -1
    /\ \E u \in Range(resp.candidate_videos) :
           /\ ~Unusable(u)
           /\ ~ReqFeasible(u)
           /\ u \notin ResultVideos

\* the video ids of all hits of the answered call: sentences in query
\* order, each sentence's hits in rank order
ReqHitVideos ==
    Flatten([i \in 1..ReqM |->
        LET units == RankedUnits(req.model_type, ReqT[i], req.topk_per_sentence)
        IN  [n \in 1..Len(units) |-> units[n].video_id]])

\* the position of the first appearance of video v in a list of video ids
FirstAt(vids, v) == CHOOSE n \in 1..Len(vids) : vids[n] = v /\ \A j \in 1..(n - 1) : vids[j] # v
\* the distinct videos that appear before position n
SeenBefore(vids, n) == {vids[j] : j \in 1..(n - 1)} \ {None}

\* C22: candidate_videos has no repeated video and at most
\* max_candidate_videos entries, lists the videos in order of first
\* appearance over the sentences in query order and their hits in rank
\* order, and leaves a video of some hit out only if max_candidate_videos
\* distinct videos came before its first appearance.
C22_CandidatesFirstSeen ==
    Aligned =>
        LET cands == resp.candidate_videos
            vids == ReqHitVideos
        IN  /\ \A a, b \in 1..Len(cands) : a # b => cands[a] # cands[b]
            /\ Len(cands) <= req.max_candidate_videos
            /\ Range(cands) \subseteq Range(vids) \ {None}
            /\ \A a, b \in 1..Len(cands) :
                   a < b => FirstAt(vids, cands[a]) < FirstAt(vids, cands[b])
            /\ \A v \in (Range(vids) \ {None}) \ Range(cands) :
                   Cardinality(SeenBefore(vids, FirstAt(vids, v)))
                       >= req.max_candidate_videos

\* two candidates admitted from the first sentence's hits, and a third
\* video, first seen in the hits of a later sentence, left out
C22_Witness ==
    /\ Aligned
    /\ Len(resp.candidate_videos) = 2
    /\ req.max_candidate_videos = 2
    /\ \E v \in (Range(ReqHitVideos) \ {None}) \ Range(resp.candidate_videos) :
           FirstAt(ReqHitVideos, v) > req.topk_per_sentence

\* all topk_per_sentence hits retrieved for sentence i of the answered call
ReqFullHits ==
    [i \in 1..ReqM |->
        RankedUnits(req.model_type, ReqT[i], req.topk_per_sentence)]

\* C23: the anchor bonus of sentence i for video v comes from the first
\* anchor_top hits of v among all topk_per_sentence hits retrieved for the
\* sentence: the work similarities the call used are those computed from
\* the full hit lists, so a hit of v at any rank can contribute.
C23_BonusFromAllHits ==
    Aligned =>
        \A v \in Range(resp.candidate_videos) :
            ~Unusable(v) =>
                ReqW(v) = WorkSims(ReqT, ReqFullHits, v, ReqM)

\* the frames 0, 1, ..., M-1
FirstFrames(M) == [t \in 1..M |-> t - 1]

\* C24: a candidate with exactly F_v = M rows (M >= 2) has a gap-feasible
\* sequence, and then exactly one, if and only if w_min = 1 and w_max is
\* unset or >= 1; in that case the frames reported for it are 0, 1, ...,
\* M-1, and in every other case it yields no result.
C24_ExactlyMFrames ==
    Aligned =>
        \A v \in Range(resp.candidate_videos) :
            (LoadOk(v) /\ Len(VideoFeatures(v)) = ReqM) =>
                LET found == ReqVideoResult(v)
                    paths == FeasiblePaths(ReqM, ReqM, req.w_min, req.w_max)
                IN  IF req.w_min = 1 /\ (req.w_max = NoneArg \/ req.w_max >= 1)
                    THEN /\ paths = {FirstFrames(ReqM)}
                         /\ Len(found) = 1
                         /\ found[1].frames = FirstFrames(ReqM)
                         /\ \A n \in 1..Len(resp.results) :
                                resp.results[n].video_id = v =>
                                    resp.results[n].frames = FirstFrames(ReqM)
                    ELSE /\ paths = {}
                         /\ found = <<>>
                         /\ v \notin ResultVideos

\* three sentences aligned with the three rows of a video
C24_Witness ==
    /\ Aligned
    /\ ReqM = 3
    /\ req.w_max = 1
    /\ \E n \in 1..Len(resp.results) :
           /\ Len(VideoFeatures(resp.results[n].video_id)) = ReqM
           /\ resp.results[n].frames = FirstFrames(ReqM)

----------------------------------------------------------------------------
(* Further properties of the services                                      *)
\* a hit the engine returned (not a mock hit)
IsEngineHit(h) == h.image_id[1] \in SupportedModels

\* C25: in every hit a single-model text_search, image_search or
\* neighbor_search returns from the engine, the score, the numeric id and
\* the asset path describe the same keyframe: the id is in the id-to-asset
\* map, the path is the map's entry for it and the score is the one the
\* index search gave that id, also when the map lacks some returned ids.
C25_HitFieldsAgree ==
    (IsSingleModel /\ faiss_engine) =>
        \A i \in 1..Len(resp.results) :
            LET h == resp.results[i]
            IN  IsEngineHit(h) =>
                    /\ h.image_id[2] \in DOMAIN id2img
                    /\ h.link = id2img[h.image_id[2]]
                    /\ \E n \in 1..Len(EngineCall.idxs) :
                           /\ EngineCall.idxs[n] = h.image_id[2]
                           /\ EngineCall.scores[n] = h.score

----------------------------------------------------------------------------
(* Concurrent requests loading the engine of one SearchService              *)
\* "async with self._loading_lock": the lock is taken when nobody holds it
CanAcquire_NoLock(l) == TRUE
CanAcquire(l) == l.lock = LockFree

\* what the await of metadata_service.initialize() ends with
InitOutcomes == {"ok", "init_fails"}

\* the requests that have returned from _ensure_models_loaded: at the first
\* check, at the re-check under the lock, or after running the load
Passed == {"fast", "rechecked", "loaded", "failed"}

\* ModelManager.get_search_service: ensure_models_loaded creates the
\* services once (nothing is awaited while its lock is held), and the
\* handler then runs with the one SearchService
GetSearchService(t) ==
    /\ loading.pc[t] = "idle"
    /\ loading' = [loading EXCEPT !.pc[t] = "handler", !.manager = TRUE]
    /\ UNCHANGED <<id2img, feats, beit3_model, faiss_engine, models_loaded,
                   temporal_engine, req, resp, indexes, disk, hdf5>>

\* _ensure_models_loaded from the re-check under the lock up to its return
\* or up to the await of metadata_service.initialize()
LoadUnderLock(t, load) ==
    IF models_loaded
    THEN /\ loading' = [loading EXCEPT !.pc[t] = "rechecked", !.lock = LockFree]
         /\ UNCHANGED <<faiss_engine, models_loaded>>
    ELSE IF load = "import_fails"
    THEN /\ loading' = [loading EXCEPT !.pc[t] = "failed", !.lock = LockFree,
                                       !.assigned = FALSE]
         /\ models_loaded' = FALSE
         /\ UNCHANGED faiss_engine
    ELSE IF load \in {"no_dirs", "init_fails"}
    THEN /\ loading' = [loading EXCEPT !.pc[t] = "loaded", !.lock = LockFree,
                                       !.assigned = TRUE]
         /\ faiss_engine' = FALSE
         /\ models_loaded' = TRUE
    ELSE /\ loading' = [loading EXCEPT !.pc[t] = "initializing", !.lock = t,
                                       !.assigned = TRUE,
                                       !.built = loading.built + 1]
         /\ faiss_engine' = TRUE
         /\ UNCHANGED models_loaded

\* a handler calls _ensure_models_loaded: it returns at the first check,
\* takes the free lock, or waits for the lock
EnsureModelsLoaded(t) ==
    /\ loading.pc[t] = "handler"
    /\ IF models_loaded
       THEN /\ loading' = [loading EXCEPT !.pc[t] = "fast"]
            /\ UNCHANGED <<faiss_engine, models_loaded>>
       ELSE IF CanAcquire(loading)
       THEN \E load \in LoadOutcomes : LoadUnderLock(t, load)
       ELSE /\ loading' = [loading EXCEPT !.pc[t] = "waiting"]
            /\ UNCHANGED <<faiss_engine, models_loaded>>
    /\ UNCHANGED <<id2img, feats, beit3_model, temporal_engine, req, resp,
                   indexes, disk, hdf5>>

\* a waiting request is given the lock
AcquireLock(t) ==
    /\ loading.pc[t] = "waiting"
    /\ CanAcquire(loading)
    /\ \E load \in LoadOutcomes : LoadUnderLock(t, load)
    /\ UNCHANGED <<id2img, feats, beit3_model, temporal_engine, req, resp,
                   indexes, disk, hdf5>>

\* metadata_service.initialize() returns or raises: the engine is dropped
\* when it raised, _models_loaded is set and the lock is released
FinishInitialize(t) ==
    /\ loading.pc[t] = "initializing"
    /\ \E outcome \in InitOutcomes :
          faiss_engine' = IF outcome = "ok" THEN faiss_engine ELSE FALSE
    /\ models_loaded' = TRUE
    /\ loading' = [loading EXCEPT !.pc[t] = "loaded", !.lock = LockFree]
    /\ UNCHANGED <<id2img, feats, beit3_model, temporal_engine, req, resp,
                   indexes, disk, hdf5>>

\* the request goes on with its search and ends
Proceed(t) ==
    /\ loading.pc[t] \in Passed
    /\ loading' = [loading EXCEPT !.pc[t] = "idle"]
    /\ UNCHANGED <<id2img, feats, beit3_model, faiss_engine, models_loaded,
                   temporal_engine, req, resp, indexes, disk, hdf5>>

\* ModelManager.cleanup calling SearchService.cleanup, which takes no lock
CleanupService ==
    /\ loading.manager
    /\ faiss_engine' = FALSE
    /\ models_loaded' = FALSE
    /\ loading' = [loading EXCEPT !.built = 0]
    /\ UNCHANGED <<id2img, feats, beit3_model, temporal_engine, req, resp,
                   indexes, disk, hdf5>>

NextLoading ==
    \/ \E t \in Tasks : GetSearchService(t)
    \/ \E t \in Tasks : EnsureModelsLoaded(t)
    \/ \E t \in Tasks : AcquireLock(t)
    \/ \E t \in Tasks : FinishInitialize(t)
    \/ \E t \in Tasks : Proceed(t)
    \/ CleanupService

SpecLoading == InitService /\ [][NextLoading]_vars

\* C26: under any interleaving of concurrent requests to one SearchService,
\* MyFaiss is constructed at most once between two cleanups, at most one
\* request is inside the load, and _models_loaded is true only once the load
\* that set it has assigned _faiss_engine
C26_EngineBuiltOnce ==
    /\ loading.built <= 1
    /\ Cardinality({t \in Tasks : loading.pc[t] = "initializing"}) <= 1
    /\ models_loaded => loading.assigned

\* a request that waited for the lock has returned at the re-check while the
\* request that built the engine has returned too
C26_Witness ==
    /\ loading.built = 1
    /\ models_loaded
    /\ faiss_engine
    /\ \E t, u \in Tasks :
          loading.pc[t] = "rechecked" /\ loading.pc[u] = "loaded"

----------------------------------------------------------------------------
(* Adding vectors to and removing vectors from a built index               *)
\* the matrices and metadata lists handed to add_vectors: n new rows with
\* one metadata entry each
NewRows == <<Row(1, 2), Row(3, 1), Row(5, 2)>>
NewFeatures(n, dim) == [shape |-> <<n, dim>>, rows |-> Prefix(NewRows, n)]
NewMeta(i) ==
    [video_id |-> "L02_V001", frame_id |-> ToString(i), shot_id |-> 1,
     global_index |-> i]
NewMetadataList(n) == [i \in 1..n |-> NewMeta(i - 1)]

MaxTotal == MaxVectors + 2      \* vectors an index is grown to

add_vectors(self, d, new_features, new_metadata) ==
    IF ~self.index.built THEN Outcome(self, d, Raise("RuntimeError"))
    ELSE IF new_features.shape[2] # self.feature_dim
    THEN Outcome(self, d, Raise("ValueError"))
    ELSE LET start_id == ntotal(self.index)
             added == {ToString(start_id + i - 1) : i \in DOMAIN new_metadata}
         IN  Outcome(
               [self EXCEPT
                  !.index = FlatIndex(self.index.d,
                                      self.index.vecs \o normalize_L2(new_features.rows),
                                      self.index.supplied \o
                                        [i \in DOMAIN new_features.rows |->
                                           IF i \in DOMAIN new_metadata
                                           THEN new_metadata[i] ELSE NotSupplied]),
                  !.metadata =
                     [key \in DOMAIN self.metadata \cup added |->
                        IF key \in added
                        THEN new_metadata[(CHOOSE i \in DOMAIN new_metadata :
                                              ToString(start_id + i - 1) = key)]
                        ELSE self.metadata[key]]],
               d, Done)

\* IndexFlat.remove_ids: the selected vectors are dropped and the vectors
\* after them move down, so the ids stay 0..ntotal-1
KeptPositions(seq, ids) == {p \in DOMAIN seq : (p - 1) \notin ids}
RemoveIds(seq, ids) ==
    LET kept == KeptPositions(seq, ids)
    IN  [k \in 1..Cardinality(kept) |->
           seq[(CHOOSE p \in kept : Cardinality({q \in kept : q < p}) = k - 1)]]

remove_vectors(self, d, vector_ids) ==
    IF ~self.index.built THEN Outcome(self, d, Raise("RuntimeError"))
    ELSE LET ids == Range(vector_ids)
         IN  Outcome(
               [self EXCEPT
                  !.index = FlatIndex(self.index.d,
                                      RemoveIds(self.index.vecs, ids),
                                      RemoveIds(self.index.supplied, ids)),
                  !.metadata =
                     [key \in DOMAIN self.metadata \ {ToString(vid) : vid \in ids} |->
                        self.metadata[key]]],
               d, Done)

AddCounts == 0..2
AddDims == {FeatureDim, FeatureDim + 1}
RemoveArgs ==
    {<<>>, <<0, 2>>} \cup {<<vid>> : vid \in 0..MaxVectors}

AddVectors ==
    /\ req = NoRequest
    /\ \E n \in AddCounts, dim \in AddDims :
         /\ ntotal(indexes["faiss_index"].index) + n <= MaxTotal
         /\ LET r == add_vectors(indexes["faiss_index"], disk,
                                 NewFeatures(n, dim), NewMetadataList(n))
            IN  /\ indexes' = [indexes EXCEPT !["faiss_index"] = r.self]
                /\ req' = [op |-> "add_vectors", obj |-> "faiss_index",
                           features |-> n, dim |-> dim]
                /\ resp' = r.out
    /\ UNCHANGED <<disk, hdf5, serviceVars>>

RemoveVectors ==
    /\ req = NoRequest
    /\ \E vector_ids \in RemoveArgs :
         LET r == remove_vectors(indexes["faiss_index"], disk, vector_ids)
         IN  /\ indexes' = [indexes EXCEPT !["faiss_index"] = r.self]
             /\ req' = [op |-> "remove_vectors", obj |-> "faiss_index",
                        vector_ids |-> vector_ids]
             /\ resp' = r.out
    /\ UNCHANGED <<disk, hdf5, serviceVars>>

NextFaissUpdate == BuildIndex \/ AddVectors \/ RemoveVectors \/ Return

SpecFaissUpdate == InitFaissIndex /\ [][NextFaissUpdate]_vars

\* every vector the index holds came with a metadata entry
AllSupplied(self) ==
    \A p \in DOMAIN self.index.supplied : self.index.supplied[p] # NotSupplied

\* C27: after any sequence of build_index, add_vectors and remove_vectors
\* in which every vector came with a metadata entry, the index has as many
\* metadata entries as vectors, and the entry under id i is the one that was
\* supplied with the vector the index holds at id i.
C27_MetadataFollowsVectors ==
    LET self == indexes["faiss_index"]
    IN  (self.index.built /\ AllSupplied(self)) =>
            /\ Cardinality(DOMAIN self.metadata) = ntotal(self.index)
            /\ \A i \in 0..(ntotal(self.index) - 1) :
                  /\ ToString(i) \in DOMAIN self.metadata
                  /\ self.metadata[ToString(i)] = self.index.supplied[i + 1]

----------------------------------------------------------------------------
(* MyFaiss._truncate_text_for_clip (utils/faiss_processing.py).  A text is *)
(* a sequence of characters; a letter, a blank and a full stop stand for   *)
(* the characters that matter to it.                                       *)
MaxTextLen == 9     \* characters of a query text
MaxTokens == 2      \* the max_tokens argument

Alphabet == {"a", " ", "."}
Terminators == {".", "!", "?", ":", ";"}
QueryTexts == UNION {[1..n -> Alphabet] : n \in 0..MaxTextLen}

\* str.strip()
RECURSIVE LStrip(_)
LStrip(s) == IF s # <<>> /\ Head(s) = " " THEN LStrip(Tail(s)) ELSE s
RECURSIVE RStrip(_)
RStrip(s) ==
    IF s # <<>> /\ s[Len(s)] = " " THEN RStrip(SubSeq(s, 1, Len(s) - 1)) ELSE s
Strip(s) == LStrip(RStrip(s))

\* the loop over the characters: current grows until a terminator closes
\* the sentence; what is left at the end is a sentence unless it is blank
RECURSIVE SplitSentences(_, _, _)
SplitSentences(text, current, sentences) ==
    IF text = <<>>
    THEN IF Strip(current) # <<>> THEN Append(sentences, Strip(current))
         ELSE sentences
    ELSE IF Head(text) \in Terminators
    THEN SplitSentences(Tail(text), <<>>,
                        Append(sentences, Strip(Append(current, Head(text)))))
    ELSE SplitSentences(Tail(text), Append(current, Head(text)), sentences)

\* int(max_tokens * 2.4) and int(max_tokens * 1.6)
FirstPart(max_tokens) == (max_tokens * 24) \div 10
LastPart(max_tokens) == (max_tokens * 16) \div 10
Ellipsis == <<".", ".", ".">>

\* text[:first_part] + "..." + text[-last_part:]
HeadAndTail(text, max_tokens) ==
    SubSeq(text, 1, FirstPart(max_tokens)) \o Ellipsis
      \o SubSeq(text, Len(text) - LastPart(max_tokens) + 1, Len(text))

_truncate_text_for_clip(text, max_tokens) ==
    IF Len(text) <= max_tokens * 4 THEN text
    ELSE LET sentences == SplitSentences(text, <<>>, <<>>)
             first == sentences[1]
             last == sentences[Len(sentences)]
         IN  IF Len(sentences) > 1 /\ Len(first \o <<" ">> \o last) <= max_tokens * 4
             THEN first \o <<" ">> \o last
             ELSE IF Len(sentences) > 1 /\ Len(first) <= max_tokens * 4
             THEN first
             ELSE IF Len(text) > FirstPart(max_tokens) + LastPart(max_tokens)
             THEN HeadAndTail(text, max_tokens)
             ELSE text

\* a call of _truncate_text_for_clip
TruncateCall ==
    /\ req = NoRequest
    /\ \E text \in QueryTexts, max_tokens \in 1..MaxTokens :
         /\ req' = [op |-> "_truncate_text_for_clip", text |-> text,
                    max_tokens |-> max_tokens]
         /\ resp' = [raised |-> FALSE,
                     text |-> _truncate_text_for_clip(text, max_tokens)]
    /\ UNCHANGED <<indexes, disk, hdf5, serviceVars>>

NextTruncate == TruncateCall \/ Return

SpecTruncate == InitFaissIndex /\ [][NextTruncate]_vars

IsTruncateCall == req.op = "_truncate_text_for_clip"
Budget == 4 * req.max_tokens

\* C28: for a text longer than 4 x max_tokens, the first sentence alone is
\* returned whenever it fits the budget; otherwise the first sentence joined
\* with the last when that fits; otherwise the leading 60%, an ellipsis and
\* the trailing 40% of the budget.
C28_FirstSentenceFirst ==
    (IsTruncateCall /\ Len(req.text) > Budget) =>
        LET sentences == SplitSentences(req.text, <<>>, <<>>)
            first == sentences[1]
            last == sentences[Len(sentences)]
        IN  IF sentences # <<>> /\ Len(first) <= Budget
            THEN resp.text = first
            ELSE IF sentences # <<>> /\ Len(first \o <<" ">> \o last) <= Budget
            THEN resp.text = first \o <<" ">> \o last
            ELSE resp.text = HeadAndTail(req.text, req.max_tokens)

\* C29: for every text and every max_tokens >= 1, the returned string is at
\* most 4 x max_tokens long.
C29_ResultWithinBudget ==
    IsTruncateCall => Len(resp.text) <= Budget

\* the raw and the normalised similarities of sentence i over video v of the
\* request
ReqSims(i, v) == Sims(ReqT[i], VideoFeatures(v))
ReqNorm(i, v) == Normalize(ReqSims(i, v))
Span(sims) == SeqMax(sims) - SeqMin(sims)

\* C30: after the per-sentence min-max normalisation every normalised
\* similarity of a scored video lies in [0, 1], and a sentence whose
\* similarities over the video span less than 1e-6 is normalised to zeros.
C30_NormalizedInUnitRange ==
    Aligned =>
        \A v \in Range(resp.candidate_videos) :
            ~Unusable(v) =>
                \A i \in 1..ReqM :
                    LET sims == ReqSims(i, v)
                        norm == ReqNorm(i, v)
                    IN  /\ DOMAIN norm = DOMAIN sims
                        /\ \A j \in DOMAIN norm : 0 <= norm[j] /\ norm[j] <= NormScale
                        /\ Span(sims) * EpsDen < SimScale =>
                              \A j \in DOMAIN norm : norm[j] = 0

\* a scored video on which one sentence has equal similarities everywhere
\* and another sentence has similarities that reach both ends of [0, 1]
\* from a positive minimum
C30_Witness ==
    /\ Aligned
    /\ \E v \in Range(resp.candidate_videos) :
          /\ ~Unusable(v)
          /\ \E i, l \in 1..ReqM :
                /\ Span(ReqSims(i, v)) = 0
                /\ Span(ReqSims(l, v)) > 0
                /\ SeqMin(ReqSims(l, v)) > 0
                /\ \E j, n \in DOMAIN ReqNorm(l, v) :
                      ReqNorm(l, v)[j] = 0 /\ ReqNorm(l, v)[n] = NormScale

====
